---- MODULE Spec2Model ----
(***************************************************************************)
(* Model of the region-detection engine of the drawing validator:          *)
(* DetectedRegion.overlaps_with, the three detectors (TemplateMatcher,     *)
(* ContourDetector, ColorDetector) and the SealDetector orchestrator.      *)
(*                                                                         *)
(* Numbers.  Confidences, thresholds and IoU bounds are Python floats in   *)
(* the source; here they are integers in thousandths (650 is 0.65).        *)
(* Aspect ratios and scale factors are kept as exact rationals and only    *)
(* compared by cross-multiplication.  An image is modelled by what the     *)
(* OpenCV calls extract from it: the correlation peaks of each template    *)
(* size, the external contours of the binarised page and the external      *)
(* contours of each colour mask.                                           *)
(***************************************************************************)
EXTENDS Integers, Sequences, FiniteSets, TLC

VARIABLES phase, config, templates, color_ranges, input, call, prev, threads,
          navigator, batch, cache, recency

vars == <<phase, config, templates, color_ranges, input, call, prev, threads,
          navigator, batch, cache, recency>>

\* The page navigator, the batch processor and the cache of the application.
app == <<navigator, batch, cache, recency>>

(***************************************************************************)
(* Bounds of the model.                                                    *)
(***************************************************************************)
\* Largest number of features on a page, and of regions in a list handed
\* directly to a suppression routine.
MaxFeats == 2

(***************************************************************************)
(* Python builtins used by the source.                                     *)
(***************************************************************************)
Min(a, b) == IF a < b THEN a ELSE b

Max(a, b) == IF a > b THEN a ELSE b

Abs(a) == IF a < 0 THEN -a ELSE a

\* int(p / q) for q > 0: truncation toward zero.
TruncDiv(p, q) == IF p >= 0 THEN p \div q ELSE -((-p) \div q)

\* p / q as a float, kept in thousandths (rounded down).
Thousandths(p, q) == (p * 1000) \div q

\* value * weight for a weight in thousandths (0.2 is 200).
Weighted(value, weight) == (value * weight) \div 1000

(***************************************************************************)
(* detection_models.py                                                     *)
(***************************************************************************)
None == "None"

DetectionConfig ==
    [template_confidence_threshold |-> 650,
     template_scale_range |-> <<50, 150>>,
     template_scale_steps |-> 10,
     contour_min_area |-> 500,
     contour_max_area |-> 10000,
     contour_min_aspect_ratio |-> 2000,
     contour_max_aspect_ratio |-> 8000,
     contour_min_width |-> 100,
     contour_max_width |-> 800,
     contour_min_height |-> 30,
     contour_max_height |-> 200,
     color_min_area |-> 300,
     color_max_area |-> 5000,
     color_min_circularity |-> 600,
     min_confidence |-> 650,
     nms_threshold |-> 300]

DetectedRegion(x, y, width, height, confidence, detection_method, template_name, color) ==
    [x |-> x, y |-> y, width |-> width, height |-> height,
     confidence |-> confidence, detection_method |-> detection_method,
     template_name |-> template_name, color |-> color, page_num |-> 0]

area(r) == r.width * r.height

\* The locals of overlaps_with: the corners of the intersection rectangle.
IX1(a, b) == Max(a.x, b.x)

IY1(a, b) == Max(a.y, b.y)

IX2(a, b) == Min(a.x + a.width, b.x + b.width)

IY2(a, b) == Min(a.y + a.height, b.y + b.height)

NoIntersection(a, b) == IX2(a, b) < IX1(a, b) \/ IY2(a, b) < IY1(a, b)

intersection(a, b) == (IX2(a, b) - IX1(a, b)) * (IY2(a, b) - IY1(a, b))

union(a, b) == area(a) + area(b) - intersection(a, b)

\* iou = intersection / union if union > 0 else 0, as the pair <<num, den>>.
iou(a, b) ==
    IF union(a, b) > 0 THEN <<intersection(a, b), union(a, b)>> ELSE <<0, 1>>

\* iou > threshold, threshold in thousandths.
IouExceedsAlt(a, b, threshold) == iou(a, b)[1] * 1000 >= threshold * iou(a, b)[2]

IouExceeds(a, b, threshold) == iou(a, b)[1] * 1000 > threshold * iou(a, b)[2]

overlaps_with(a, b, threshold) ==
    IF NoIntersection(a, b) THEN FALSE ELSE IouExceeds(a, b, threshold)

(***************************************************************************)
(* sorted(regions, key=lambda r: r.confidence, reverse=True): a stable     *)
(* sort, so regions of equal confidence keep their order in the input.     *)
(***************************************************************************)
RECURSIVE InsertByConfidence(_, _)
InsertByConfidence(r, s) ==
    IF s = <<>> THEN <<r>>
    ELSE IF Head(s).confidence >= r.confidence
         THEN <<Head(s)>> \o InsertByConfidence(r, Tail(s))
         ELSE <<r>> \o s

RECURSIVE sorted(_)
sorted(s) ==
    IF s = <<>> THEN <<>>
    ELSE InsertByConfidence(s[Len(s)], sorted(SubSeq(s, 1, Len(s) - 1)))

(***************************************************************************)
(* The four suppression loops.  Each is the `while` loop of its routine:   *)
(* pop the first region, keep it, and filter the rest against it.          *)
(***************************************************************************)
RECURSIVE ConsolidateLoop(_, _)
ConsolidateLoop(sorted_detections, cfg) ==
    IF sorted_detections = <<>> THEN <<>>
    ELSE LET current == Head(sorted_detections)
             rest == SelectSeq(Tail(sorted_detections),
                         LAMBDA r: ~overlaps_with(current, r, cfg.nms_threshold))
         IN <<current>> \o ConsolidateLoop(rest, cfg)

\* A consolidation that suppresses with the contour detector's fixed 0.5.
ConsolidateFixedThreshold(detections, cfg) ==
    IF detections = <<>> THEN <<>>
    ELSE ConsolidateLoop(sorted(detections), [cfg EXCEPT !.nms_threshold = 500])

\* A consolidation that skips the sort and suppresses in input order.
ConsolidateUnsorted(detections, cfg) ==
    IF detections = <<>> THEN <<>> ELSE ConsolidateLoop(detections, cfg)

\* SealDetector._consolidate_detections
_consolidate_detections(detections, cfg) ==
    IF detections = <<>> THEN <<>> ELSE ConsolidateLoop(sorted(detections), cfg)

RECURSIVE TemplateNmsLoop(_, _)
TemplateNmsLoop(sorted_regions, cfg) ==
    IF sorted_regions = <<>> THEN <<>>
    ELSE LET current == Head(sorted_regions)
             rest == SelectSeq(Tail(sorted_regions),
                         LAMBDA r: ~overlaps_with(current, r, cfg.nms_threshold))
         IN <<current>> \o TemplateNmsLoop(rest, cfg)

\* TemplateMatcher._apply_non_max_suppression
_apply_non_max_suppression(regions, cfg) ==
    IF regions = <<>> THEN <<>> ELSE TemplateNmsLoop(sorted(regions), cfg)

RECURSIVE ContourOverlapLoop(_)
ContourOverlapLoop(sorted_regions) ==
    IF sorted_regions = <<>> THEN <<>>
    ELSE LET current == Head(sorted_regions)
             rest == SelectSeq(Tail(sorted_regions),
                         LAMBDA r: ~overlaps_with(current, r, 500))
         IN <<current>> \o ContourOverlapLoop(rest)

\* A _remove_overlaps that suppresses with the colour detector's 0.3.
ContourRemoveOverlapsLoose(regions) ==
    IF regions = <<>> THEN <<>>
    ELSE TemplateNmsLoop(sorted(regions), [nms_threshold |-> 300])

\* ContourDetector._remove_overlaps
contour_remove_overlaps(regions) ==
    IF regions = <<>> THEN <<>> ELSE ContourOverlapLoop(sorted(regions))

RECURSIVE ColorOverlapLoop(_)
ColorOverlapLoop(sorted_regions) ==
    IF sorted_regions = <<>> THEN <<>>
    ELSE LET current == Head(sorted_regions)
             rest == SelectSeq(Tail(sorted_regions),
                         LAMBDA r: ~overlaps_with(current, r, 300))
         IN <<current>> \o ColorOverlapLoop(rest)

\* ColorDetector._remove_overlaps
color_remove_overlaps(regions) ==
    IF regions = <<>> THEN <<>> ELSE ColorOverlapLoop(sorted(regions))

\* The concatenation of the sequences of a sequence, in order.
RECURSIVE Flatten(_)
Flatten(ss) == IF ss = <<>> THEN <<>> ELSE Head(ss) \o Flatten(Tail(ss))

\* [f(s[1]), ..., f(s[n])]
MapSeq(f(_), s) == [i \in 1..Len(s) |-> f(s[i])]

(***************************************************************************)
(* template_matcher.py                                                     *)
(***************************************************************************)
\* np.linspace(scale_start, scale_end, steps) as exact rationals <<num, den>>;
\* the range is held in percent.
scales(cfg) ==
    LET scale_start == cfg.template_scale_range[1]
        scale_end == cfg.template_scale_range[2]
        n == cfg.template_scale_steps
    IN IF n = 1 THEN << <<scale_start, 100>> >>
       ELSE [i \in 1..n |->
                <<scale_start * (n - 1) + (i - 1) * (scale_end - scale_start),
                  100 * (n - 1)>>]

\* np.linspace raises ValueError for a negative number of samples.
LinspaceRaises(cfg) == cfg.template_scale_steps < 0

\* TemplateMatcher._resize_template: the size of the returned template.
_resize_template(template, scale) ==
    LET new_width == TruncDiv(template.w * scale[1], scale[2])
        new_height == TruncDiv(template.h * scale[1], scale[2])
    IN IF new_width < 10 \/ new_height < 10 THEN template
       ELSE [template EXCEPT !.w = new_width, !.h = new_height]

\* np.where lists the places of a map row by row: by y, then by x.
RECURSIVE RowMajor(_)
RowMajor(pts) ==
    IF pts = <<>> THEN <<>>
    ELSE LET n == Len(pts)
             last == pts[n]
             front == RowMajor(SubSeq(pts, 1, n - 1))
             Before(p) == p.y < last.y \/ (p.y = last.y /\ p.x <= last.x)
         IN SelectSeq(front, Before) \o <<last>>
            \o SelectSeq(front, LAMBDA p: ~Before(p))

\* The places of the correlation map of `scaled` that reach the threshold.
Locations(image, scaled, cfg) ==
    RowMajor(SelectSeq(image.feats,
        LAMBDA f: /\ f.kind = "hit"
                  /\ f.name = scaled.name /\ f.w = scaled.w /\ f.h = scaled.h
                  /\ f.score >= cfg.template_confidence_threshold))

\* The regions of one scale of _match_template_multiscale.
MatchAtScale(image, template, scale, cfg) ==
    LET scaled_template == _resize_template(template, scale)
    IN IF scaled_template.h > image.height \/ scaled_template.w > image.width
       THEN <<>>
       ELSE MapSeq(LAMBDA pt: DetectedRegion(pt.x, pt.y, scaled_template.w,
                                  scaled_template.h, pt.score,
                                  "template_matching", template.name, None),
                   Locations(image, scaled_template, cfg))

\* TemplateMatcher._match_template_multiscale
_match_template_multiscale(image, template, cfg) ==
    Flatten(MapSeq(LAMBDA scale: MatchAtScale(image, template, scale, cfg),
                   scales(cfg)))

\* TemplateMatcher.detect: <<status, regions>> as a record.
TemplateMatcher_detect(image, tmpls, cfg) ==
    IF tmpls = <<>> THEN [status |-> "ok", regions |-> <<>>]
    ELSE IF LinspaceRaises(cfg) THEN [status |-> "raised", regions |-> <<>>]
    ELSE [status |-> "ok",
          regions |-> _apply_non_max_suppression(
              Flatten(MapSeq(LAMBDA t: _match_template_multiscale(image, t, cfg),
                             tmpls)), cfg)]

(***************************************************************************)
(* contour_detector.py                                                     *)
(***************************************************************************)
\* aspect_ratio = w / h if h > 0 else 0, as the pair <<num, den>>.
aspect_ratio(w, h) == IF h > 0 THEN <<w, h>> ELSE <<0, 1>>

\* lo < ratio < hi for a ratio <<num, den>> and bounds in thousandths.
RatioBetween(lo, ratio, hi) ==
    lo * ratio[2] < ratio[1] * 1000 /\ ratio[1] * 1000 < hi * ratio[2]

\* A _is_signature_block whose bounds are themselves admitted.
IsSignatureBlockInclusive(cfg, contour_area, aspect, width, height) ==
    /\ cfg.contour_min_area <= contour_area
    /\ contour_area <= cfg.contour_max_area
    /\ cfg.contour_min_aspect_ratio * aspect[2] <= aspect[1] * 1000
    /\ aspect[1] * 1000 <= cfg.contour_max_aspect_ratio * aspect[2]
    /\ cfg.contour_min_width <= width /\ width <= cfg.contour_max_width
    /\ cfg.contour_min_height <= height /\ height <= cfg.contour_max_height

\* ContourDetector._is_signature_block
_is_signature_block(cfg, contour_area, aspect, width, height) ==
    LET area_ok == cfg.contour_min_area < contour_area /\ contour_area < cfg.contour_max_area
        aspect_ok == RatioBetween(cfg.contour_min_aspect_ratio, aspect,
                                  cfg.contour_max_aspect_ratio)
        width_ok == cfg.contour_min_width < width /\ width < cfg.contour_max_width
        height_ok == cfg.contour_min_height < height /\ height < cfg.contour_max_height
    IN area_ok /\ aspect_ok /\ width_ok /\ height_ok

\* ContourDetector._calculate_confidence
contour_calculate_confidence(contour, contour_area, aspect) ==
    LET bbox_area == contour.w * contour.h
        base == 500
        rect_bonus == IF bbox_area > 0
                      THEN Weighted(Thousandths(contour_area, bbox_area), 200) ELSE 0
        ideal_aspect == 4000
        aspect_score == 1000 - Min(Thousandths(
                            Abs(Thousandths(aspect[1], aspect[2]) - ideal_aspect),
                            ideal_aspect), 1000)
        aspect_bonus == Weighted(aspect_score, 200)
        hull_bonus == IF contour.hull > 0
                      THEN Weighted(Thousandths(contour_area, contour.hull), 100) ELSE 0
    IN Max(0, Min(1000, base + rect_bonus + aspect_bonus + hull_bonus))

\* The body of the loop over contours of ContourDetector.detect: the regions
\* (none or one) that one contour contributes.
ContourRegions(contour, cfg) ==
    LET aspect == aspect_ratio(contour.w, contour.h)
    IN IF contour.area = 0 THEN <<>>
       ELSE IF _is_signature_block(cfg, contour.area, aspect, contour.w, contour.h)
       THEN << DetectedRegion(contour.x, contour.y, contour.w, contour.h,
                   contour_calculate_confidence(contour, contour.area, aspect),
                   "contour_detection", None, None) >>
       ELSE <<>>

\* ContourDetector.detect, lines 67-93: the candidates of all contours.
ContourCandidates(image, cfg) ==
    Flatten(MapSeq(LAMBDA c: ContourRegions(c, cfg),
                   SelectSeq(image.feats, LAMBDA f: f.kind = "contour")))

\* ContourDetector.detect
ContourDetector_detect(image, cfg) ==
    contour_remove_overlaps(ContourCandidates(image, cfg))

(***************************************************************************)
(* color_detector.py                                                       *)
(***************************************************************************)
\* The colour-range table of ColorDetector.__init__, in dictionary order.
DefaultColorRanges ==
    <<"engineering_red", "engineering_red_wrap", "engineering_blue",
      "engineering_green", "engineering_black">>

\* color_name.replace('engineering_', '').replace('_wrap', '')
display_color(color_name) ==
    CASE color_name = "engineering_red" -> "red"
      [] color_name = "engineering_red_wrap" -> "red"
      [] color_name = "engineering_blue" -> "blue"
      [] color_name = "engineering_green" -> "green"
      [] color_name = "engineering_black" -> "black"
      [] OTHER -> color_name

\* circularity = 4 * pi * area / perimeter^2, in thousandths.
circularity(blob) == (12566 * blob.area) \div (blob.perimeter * blob.perimeter)

\* ideal_area = (color_min_area + color_max_area) / 2, doubled to stay whole.
ideal_area2(cfg) == cfg.color_min_area + cfg.color_max_area

\* The division by ideal_area raises ZeroDivisionError when it is zero.
ConfidenceRaises(cfg) == ideal_area2(cfg) = 0

\* ColorDetector._calculate_confidence (for ideal_area /= 0)
color_calculate_confidence(cfg, circ, blob_area, aspect, is_circular) ==
    LET base == 600
        square_score == 1000 - Abs(1000 - Thousandths(aspect[1], aspect[2]))
        shape_bonus == IF is_circular THEN Weighted(circ, 200)
                       ELSE Weighted(square_score, 150)
        distance == Abs(2 * blob_area - ideal_area2(cfg)) * 1000
        deviation == IF ideal_area2(cfg) > 0 THEN distance \div ideal_area2(cfg)
                     ELSE -(distance \div (-ideal_area2(cfg)))
        area_score == 1000 - Min(deviation, 1000)
        area_bonus == Weighted(area_score, 100)
    IN Max(0, Min(1000, base + shape_bonus + area_bonus))

\* A filter that wants a contour both circular and squarish.
ColorAcceptsBoth(blob, cfg) ==
    /\ cfg.color_min_area < blob.area /\ blob.area < cfg.color_max_area
    /\ blob.perimeter # 0
    /\ circularity(blob) > cfg.color_min_circularity
    /\ RatioBetween(500, aspect_ratio(blob.w, blob.h), 2000)

\* Whether a contour of a colour mask passes the area and shape tests.
ColorAccepts(blob, cfg) ==
    /\ cfg.color_min_area < blob.area /\ blob.area < cfg.color_max_area
    /\ blob.perimeter # 0
    /\ \/ circularity(blob) > cfg.color_min_circularity
       \/ RatioBetween(500, aspect_ratio(blob.w, blob.h), 2000)

\* The body of the loop over contours of _detect_color_range.
ColorRegions(blob, color_name, cfg) ==
    IF ColorAccepts(blob, cfg)
    THEN << DetectedRegion(blob.x, blob.y, blob.w, blob.h,
                color_calculate_confidence(cfg, circularity(blob), blob.area,
                    aspect_ratio(blob.w, blob.h),
                    circularity(blob) > cfg.color_min_circularity),
                "color_detection", None, display_color(color_name)) >>
    ELSE <<>>

\* ColorDetector._detect_color_range
_detect_color_range(image, color_name, cfg) ==
    Flatten(MapSeq(LAMBDA b: ColorRegions(b, color_name, cfg),
                   SelectSeq(image.feats,
                       LAMBDA f: f.kind = "blob" /\ f.range = color_name)))

\* ColorDetector._merge_red_detections
_merge_red_detections(regions) ==
    [i \in 1..Len(regions) |->
        IF regions[i].color = "red_wrap"
        THEN [regions[i] EXCEPT !.color = "red"] ELSE regions[i]]

\* Whether some accepted contour reaches the division by a zero ideal_area.
ColorDetectRaises(image, ranges, cfg) ==
    /\ ConfidenceRaises(cfg)
    /\ \E i \in 1..Len(image.feats) :
          /\ image.feats[i].kind = "blob"
          /\ \E j \in 1..Len(ranges) : image.feats[i].range = ranges[j]
          /\ ColorAccepts(image.feats[i], cfg)

\* ColorDetector.detect, lines 70-80: the list filled from the colour ranges.
ColorCandidates(image, ranges, cfg) ==
    Flatten(MapSeq(LAMBDA name: _detect_color_range(image, name, cfg), ranges))

\* ColorDetector.detect
ColorDetector_detect(image, ranges, cfg) ==
    IF ColorDetectRaises(image, ranges, cfg)
    THEN [status |-> "raised", regions |-> <<>>]
    ELSE [status |-> "ok",
          regions |-> color_remove_overlaps(_merge_red_detections(
                          ColorCandidates(image, ranges, cfg)))]

(***************************************************************************)
(* seal_detector.py                                                        *)
(***************************************************************************)
NoResult ==
    [page_num |-> -1, regions |-> <<>>, processing_time |-> 0,
     image_dimensions |-> <<0, 0>>]

NoSummary ==
    [page_num |-> -1, total_detections |-> 0, processing_time |-> 0,
     image_dimensions |-> <<0, 0>>,
     by_method |-> [template_matching |-> 0, contour_detection |-> 0,
                    color_detection |-> 0],
     by_confidence |-> [high |-> 0, medium |-> 0, low |-> 0]]

NoCall ==
    [op |-> "none", status |-> "none", page_num |-> -1, threshold |-> -1,
     name |-> None, dir |-> [exists |-> FALSE, files |-> <<>>],
     dir_exists |-> FALSE, readable_files |-> 0,
     template_results |-> <<>>, contour_results |-> <<>>,
     color_results |-> <<>>, consolidated_results |-> <<>>,
     result |-> NoResult, results |-> <<>>, summary |-> NoSummary,
     ret_regions |-> <<>>, ret_bool |-> FALSE]

\* The confidence filter of detect with a strict comparison.
FilterStrict(consolidated_results, cfg) ==
    SelectSeq(consolidated_results, LAMBDA r: r.confidence > cfg.min_confidence)

\* detect, lines 94-99: the confidence filter.
FilterByConfidence(consolidated_results, cfg) ==
    SelectSeq(consolidated_results, LAMBDA r: r.confidence >= cfg.min_confidence)

\* A final sort without reverse=True (ascending, stable).
RECURSIVE SortAscending(_)
SortAscending(filtered_results) ==
    IF filtered_results = <<>> THEN <<>>
    ELSE LET n == Len(filtered_results)
             last == filtered_results[n]
             front == SortAscending(SubSeq(filtered_results, 1, n - 1))
         IN SelectSeq(front, LAMBDA r: r.confidence <= last.confidence)
            \o <<last>>
            \o SelectSeq(front, LAMBDA r: r.confidence > last.confidence)

\* detect, lines 101-106: the final sort.
SortFiltered(filtered_results) == sorted(filtered_results)

\* A stamping loop that leaves the regions as the detectors made them.
StampNothing(regions, page_num) == regions

\* detect, lines 108-110: every region gets the caller's page number.
StampPage(regions, page_num) ==
    [i \in 1..Len(regions) |-> [regions[i] EXCEPT !.page_num = page_num]]

\* detect, line 87: all_results = template + contour + color.
Concatenate(template_results, contour_results, color_results) ==
    template_results \o contour_results \o color_results

\* detect, lines 63-92: the detectors and the consolidation of one run, as a
\* call record that holds the locals.
DetectRun(image, tmpls, ranges, cfg) ==
    LET t == TemplateMatcher_detect(image, tmpls, cfg)
        c == ContourDetector_detect(image, cfg)
        k == ColorDetector_detect(image, ranges, cfg)
        all_results == Concatenate(t.regions, c, k.regions)
        consolidated_results == _consolidate_detections(all_results, cfg)
    IN IF t.status = "raised" \/ k.status = "raised"
       THEN [NoCall EXCEPT !.op = "detect", !.status = "raised"]
       ELSE [NoCall EXCEPT !.op = "detect", !.status = "ok",
                 !.template_results = t.regions,
                 !.contour_results = c,
                 !.color_results = k.regions,
                 !.consolidated_results = consolidated_results]

\* detect, lines 94-124: filter, sort, stamp the page number, build the result.
DetectReturn(run, image, page_num, elapsed, cfg) ==
    IF run.status = "raised" THEN [run EXCEPT !.page_num = page_num]
    ELSE [run EXCEPT !.page_num = page_num,
              !.result = [page_num |-> page_num,
                          regions |-> StampPage(
                              SortFiltered(FilterByConfidence(
                                  run.consolidated_results, cfg)),
                              page_num),
                          processing_time |-> elapsed,
                          image_dimensions |-> <<image.width, image.height>>]]

\* An enumerate that counts the pages from one.
RECURSIVE DetectPagesFromOne(_, _, _, _, _, _)
DetectPagesFromOne(images, page_num, tmpls, ranges, cfg, elapsed) ==
    IF images = <<>> THEN [status |-> "ok", results |-> <<>>]
    ELSE LET image == Head(images)
             first == DetectReturn(DetectRun(image, tmpls, ranges, cfg),
                                   image, page_num + 1, elapsed, cfg)
             rest == DetectPagesFromOne(Tail(images), page_num + 1, tmpls,
                                        ranges, cfg, elapsed)
         IN IF first.status = "raised" \/ rest.status = "raised"
            THEN [status |-> "raised", results |-> <<>>]
            ELSE [status |-> "ok", results |-> <<first.result>> \o rest.results]

\* detect_multi_page, lines 187-189: the loop over enumerate(images), from
\* page_num on; an exception of detect ends the loop and the call.
RECURSIVE DetectPages(_, _, _, _, _, _)
DetectPages(images, page_num, tmpls, ranges, cfg, elapsed) ==
    IF images = <<>> THEN [status |-> "ok", results |-> <<>>]
    ELSE LET image == Head(images)
             first == DetectReturn(DetectRun(image, tmpls, ranges, cfg),
                                   image, page_num, elapsed, cfg)
             rest == DetectPages(Tail(images), page_num + 1, tmpls, ranges,
                                 cfg, elapsed)
         IN IF first.status = "raised" \/ rest.status = "raised"
            THEN [status |-> "raised", results |-> <<>>]
            ELSE [status |-> "ok", results |-> <<first.result>> \o rest.results]

\* DetectionResult.detection_count
detection_count(result) == Len(result.regions)

\* DetectionResult.get_regions_by_method(method)
get_regions_by_method(result, method) ==
    SelectSeq(result.regions, LAMBDA r: r.detection_method = method)

\* A banding that counts a confidence of exactly 0.8 as high.
BandInclusive(confidence) ==
    IF confidence >= 800 THEN "high"
    ELSE IF confidence >= 650 THEN "medium"
    ELSE "low"

\* get_detection_summary, lines 254-260: the band of one region.
Band(confidence) ==
    IF confidence > 800 THEN "high"
    ELSE IF confidence >= 650 THEN "medium"
    ELSE "low"

\* get_detection_summary, lines 253-260: the counter of one band.
CountBand(result, band) ==
    Len(SelectSeq(result.regions, LAMBDA r: Band(r.confidence) = band))

\* SealDetector.get_detection_summary(result)
get_detection_summary(result) ==
    [page_num |-> result.page_num,
     total_detections |-> detection_count(result),
     processing_time |-> result.processing_time,
     image_dimensions |-> result.image_dimensions,
     by_method |->
         [template_matching |->
              Len(get_regions_by_method(result, "template_matching")),
          contour_detection |->
              Len(get_regions_by_method(result, "contour_detection")),
          color_detection |->
              Len(get_regions_by_method(result, "color_detection"))],
     by_confidence |-> [high |-> CountBand(result, "high"),
                        medium |-> CountBand(result, "medium"),
                        low |-> CountBand(result, "low")]]

(***************************************************************************)
(* TemplateMatcher._load_templates.  A directory is a listing of files     *)
(* [stem, ext, readable, w, h]; the dictionary of templates is a sequence  *)
(* of [name, w, h] in insertion order.                                     *)
(***************************************************************************)
\* templates[name] = image: replaces in place, or appends a new key.
DictSet(dict, entry) ==
    IF \E i \in 1..Len(dict) : dict[i].name = entry.name
    THEN [i \in 1..Len(dict) |->
             IF dict[i].name = entry.name THEN entry ELSE dict[i]]
    ELSE Append(dict, entry)

\* A loader that gives up at the first file it cannot read.
RECURSIVE LoadFilesStopping(_, _)
LoadFilesStopping(files, dict) ==
    IF files = <<>> THEN dict
    ELSE LET f == Head(files)
         IN IF f.readable
            THEN LoadFilesStopping(Tail(files),
                     DictSet(dict, [name |-> f.stem, w |-> f.w, h |-> f.h]))
            ELSE dict

RECURSIVE LoadFiles(_, _)
LoadFiles(files, dict) ==
    IF files = <<>> THEN dict
    ELSE LET f == Head(files)
         IN LoadFiles(Tail(files),
                IF f.readable
                THEN DictSet(dict, [name |-> f.stem, w |-> f.w, h |-> f.h])
                ELSE dict)

\* A loader that fails when the directory is missing.
LoadTemplatesStrict(dir) ==
    IF ~dir.exists THEN [status |-> "raised", templates |-> <<>>]
    ELSE [status |-> "ok",
          templates |-> LoadFiles(
              SelectSeq(dir.files, LAMBDA f: f.ext = "png")
              \o SelectSeq(dir.files, LAMBDA f: f.ext = "jpg")
              \o SelectSeq(dir.files, LAMBDA f: f.ext = "jpeg"), <<>>)]

_load_templates(dir) ==
    IF ~dir.exists THEN [status |-> "ok", templates |-> <<>>]
    ELSE [status |-> "ok",
          templates |-> LoadFiles(
              SelectSeq(dir.files, LAMBDA f: f.ext = "png")
              \o SelectSeq(dir.files, LAMBDA f: f.ext = "jpg")
              \o SelectSeq(dir.files, LAMBDA f: f.ext = "jpeg"), <<>>)]

ReadableImageFiles(dir) ==
    Cardinality({i \in 1..Len(dir.files) :
        dir.files[i].readable /\ dir.files[i].ext \in {"png", "jpg", "jpeg"}})

(***************************************************************************)
(* Inputs.  A page is a 500 x 500 image (the size the tests use) carrying  *)
(* at most MaxFeats features; a feature is a peak of a correlation map, a  *)
(* contour of the binarised page or a contour of a colour mask.            *)
(***************************************************************************)
Hit(name, w, h, x, y, score) ==
    [kind |-> "hit", name |-> name, w |-> w, h |-> h, x |-> x, y |-> y,
     score |-> score]

Contour(x, y, w, h, contour_area, hull) ==
    [kind |-> "contour", x |-> x, y |-> y, w |-> w, h |-> h,
     area |-> contour_area, hull |-> hull]

Blob(range, x, y, w, h, blob_area, perimeter) ==
    [kind |-> "blob", range |-> range, x |-> x, y |-> y, w |-> w, h |-> h,
     area |-> blob_area, perimeter |-> perimeter]

FeaturePool ==
    << Hit("seal", 120, 120, 20, 20, 853),
       Hit("seal", 120, 120, 24, 20, 650),
       Hit("tiny", 16, 16, 400, 50, 900),
       Hit("seal", 120, 120, 30, 20, -200),
       Contour(10, 400, 200, 40, 7600, 7800),
       Contour(90, 400, 200, 40, 6000, 7000),
       Blob("engineering_red", 30, 30, 70, 70, 3848, 220),
       Blob("engineering_red_wrap", 34, 30, 70, 70, 3700, 230),
       Blob("engineering_blue", 300, 100, 60, 40, 2000, 400) >>

\* Regions handed directly to overlaps_with and _consolidate_detections.
RegionPool ==
    << DetectedRegion(0, 0, 10, 10, 900, "template_matching", "seal", None),
       DetectedRegion(0, 0, 10, 9, 700, "contour_detection", None, None),
       DetectedRegion(20, 20, 10, 10, 700, "color_detection", None, "red"),
       DetectedRegion(10, 0, 10, 10, 900, "contour_detection", None, None),
       DetectedRegion(10, 10, 5, 5, 800, "color_detection", None, "blue"),
       DetectedRegion(5, 5, 0, 0, 800, "color_detection", None, "black"),
       DetectedRegion(5, 5, 0, 0, 750, "contour_detection", None, None),
       DetectedRegion(4, 0, 10, 10, 900, "color_detection", None, "green") >>

Reverse(s) == [i \in 1..Len(s) |-> s[Len(s) + 1 - i]]

\* The members of pool at the positions in S, in pool order.
Pick(pool, S) == LET RECURSIVE From(_)
                     From(i) == IF i > Len(pool) THEN <<>>
                                ELSE (IF i \in S THEN <<pool[i]>> ELSE <<>>) \o From(i + 1)
                 IN From(1)

Selections(pool) ==
    LET picked == {Pick(pool, S) : S \in {T \in SUBSET (1..Len(pool)) :
                                             Cardinality(T) <= MaxFeats}}
    IN picked \cup {Reverse(s) : s \in picked}

Images ==
    {[kind |-> "image", width |-> 500, height |-> 500, feats |-> fs] :
        fs \in Selections(FeaturePool)}

RegionLists == {[kind |-> "regions", regions |-> rs] : rs \in Selections(RegionPool)}

Inputs == Images \cup RegionLists

Pages == {0, 1}

Durations == {1, 2}

Thresholds == {0, 300, 1000}

\* Configurations a caller may set: the defaults and some departures.
Configs ==
    { DetectionConfig,
      [DetectionConfig EXCEPT !.nms_threshold = 0, !.template_scale_steps = 3],
      [DetectionConfig EXCEPT !.nms_threshold = 1000, !.min_confidence = 0],
      [DetectionConfig EXCEPT !.template_confidence_threshold = -500,
                              !.min_confidence = -1000],
      [DetectionConfig EXCEPT !.min_confidence = 800, !.nms_threshold = 500],
      [DetectionConfig EXCEPT !.template_scale_steps = -1,
                              !.color_min_area = -5000] }

File(stem, ext, readable, w, h) ==
    [stem |-> stem, ext |-> ext, readable |-> readable, w |-> w, h |-> h]

\* Template directories found at construction.
Directories ==
    { [exists |-> FALSE, files |-> <<>>],
      [exists |-> TRUE, files |-> << File("notes", "txt", FALSE, 0, 0) >>],
      [exists |-> TRUE, files |-> << File("damaged", "png", FALSE, 0, 0) >>],
      [exists |-> TRUE, files |-> << File("damaged", "png", FALSE, 0, 0),
                                     File("seal", "png", TRUE, 80, 80) >>],
      [exists |-> TRUE, files |-> << File("tiny", "jpg", TRUE, 16, 16),
                                     File("seal", "png", TRUE, 80, 80) >>],
      [exists |-> TRUE, files |-> << File("seal", "jpg", TRUE, 80, 80),
                                     File("seal", "png", TRUE, 80, 80) >>] }

\* Template images a caller may add at run time.
TemplateImages == { [name |-> "seal", w |-> 80, h |-> 80],
                    [name |-> "tiny", w |-> 16, h |-> 16] }

NoPrev == [op |-> "none", page_num |-> -1, regions |-> <<>>, status |-> "none"]

\* What the next call sees of the call before it.
Remember(c) ==
    IF c.op = "detect"
    THEN [op |-> "detect", page_num |-> c.page_num,
          regions |-> c.result.regions, status |-> c.status]
    ELSE NoPrev

\* TemplateMatcher.get_template_names()
get_template_names(tmpls) == [i \in 1..Len(tmpls) |-> tmpls[i].name]

(***************************************************************************)
(* The components DrawingValidatorApp.__init__ creates besides the         *)
(* detector: page navigator, batch processor and processing cache.         *)
(***************************************************************************)
\* PageNavigator.__init__
PageNavigator ==
    [current_page |-> 0, total_pages |-> 0, page_images |-> <<>>,
     page_results |-> <<>>, current_filepath |-> None]

\* BatchProcessor.__init__(max_workers)
BatchProcessor(max_workers) ==
    [max_workers |-> max_workers, results |-> <<>>, is_processing |-> FALSE,
     current_progress |-> 0, total_tasks |-> 0, cancel_requested |-> FALSE,
     tasks |-> <<>>]

\* ProcessingCache.__init__(max_size)
ProcessingCache(max_size) ==
    [max_size |-> max_size, cache |-> <<>>, hits |-> 0, misses |-> 0]

\* The application's defaults: AppConfig.batch_max_workers, AppConfig.cache_size.
batch_max_workers == 2

cache_size == 100

NewApp ==
    /\ navigator = PageNavigator
    /\ batch = BatchProcessor(batch_max_workers)
    /\ cache = ProcessingCache(cache_size)
    /\ recency = <<>>

(***************************************************************************)
(* The state machine.                                                      *)
(***************************************************************************)
Init ==
    /\ phase = "new"
    /\ config \in Configs
    /\ templates = <<>>
    /\ color_ranges = DefaultColorRanges
    /\ input \in Inputs
    /\ call = NoCall
    /\ prev = NoPrev
    /\ threads = <<>>
    /\ NewApp

\* SealDetector.__init__ / TemplateMatcher.__init__
Construct(dir) ==
    /\ phase = "new"
    /\ LET loaded == _load_templates(dir)
       IN /\ call' = [NoCall EXCEPT !.op = "construct",
                                    !.status = loaded.status,
                                    !.dir = dir,
                                    !.dir_exists = dir.exists,
                                    !.readable_files = ReadableImageFiles(dir)]
          /\ phase' = IF loaded.status = "ok" THEN "constructed" ELSE "new"
          /\ templates' = loaded.templates
    /\ prev' = NoPrev
    /\ UNCHANGED <<config, color_ranges, input, threads, app>>

\* A detect that uses up the templates it matched.
DetectConsuming(page_num, elapsed) ==
    /\ phase = "constructed"
    /\ input.kind = "image"
    /\ call' = DetectReturn(DetectRun(input, templates, color_ranges, config),
                            input, page_num, elapsed, config)
    /\ prev' = Remember(call)
    /\ templates' = <<>>
    /\ UNCHANGED <<phase, config, color_ranges, input, threads, app>>

\* SealDetector.detect(image, page_num); elapsed is the measured duration.
Detect(page_num, elapsed) ==
    /\ phase = "constructed"
    /\ input.kind = "image"
    /\ call' = DetectReturn(DetectRun(input, templates, color_ranges, config),
                            input, page_num, elapsed, config)
    /\ prev' = Remember(call)
    /\ UNCHANGED <<phase, config, templates, color_ranges, input, threads, app>>

\* TemplateMatcher.detect(image), called on the detector's matcher.
TemplateDetect ==
    /\ phase = "constructed"
    /\ input.kind = "image"
    /\ LET t == TemplateMatcher_detect(input, templates, config)
       IN call' = [NoCall EXCEPT !.op = "template_detect", !.status = t.status,
                                 !.ret_regions = t.regions]
    /\ prev' = NoPrev
    /\ UNCHANGED <<phase, config, templates, color_ranges, input, threads, app>>

\* SealDetector._consolidate_detections(detections), called directly.
Consolidate ==
    /\ phase = "constructed"
    /\ input.kind = "regions"
    /\ call' = [NoCall EXCEPT !.op = "consolidate", !.status = "ok",
                   !.ret_regions = _consolidate_detections(input.regions, config)]
    /\ prev' = NoPrev
    /\ UNCHANGED <<phase, config, templates, color_ranges, input, threads, app>>

\* first.overlaps_with(second, threshold) on the first two regions of a list.
Overlaps(threshold) ==
    /\ phase = "constructed"
    /\ input.kind = "regions"
    /\ Len(input.regions) >= 2
    /\ LET a == input.regions[1]
           b == input.regions[2]
       IN call' = [NoCall EXCEPT !.op = "overlaps_with", !.status = "ok",
                      !.threshold = threshold,
                      !.ret_bool = overlaps_with(a, b, threshold)]
    /\ prev' = NoPrev
    /\ UNCHANGED <<phase, config, templates, color_ranges, input, threads, app>>

\* TemplateMatcher.add_template(template_name, template_image)
AddTemplate(template) ==
    /\ phase = "constructed"
    /\ templates' = DictSet(templates, template)
    /\ call' = [NoCall EXCEPT !.op = "add_template", !.status = "ok",
                              !.name = template.name]
    /\ prev' = NoPrev
    /\ UNCHANGED <<phase, config, color_ranges, input, threads, app>>

\* A remove_template that reports the name but leaves it in the dictionary.
RemoveTemplateKeeps(template_name) ==
    /\ phase = "constructed"
    /\ LET present == \E i \in 1..Len(templates) : templates[i].name = template_name
       IN call' = [NoCall EXCEPT !.op = "remove_template", !.status = "ok",
                                 !.name = template_name,
                                 !.ret_bool = present]
    /\ prev' = NoPrev
    /\ UNCHANGED <<phase, config, templates, color_ranges, input, threads, app>>

\* TemplateMatcher.remove_template(template_name)
RemoveTemplate(template_name) ==
    /\ phase = "constructed"
    /\ LET present == \E i \in 1..Len(templates) : templates[i].name = template_name
       IN /\ templates' = SelectSeq(templates, LAMBDA t: t.name # template_name)
          /\ call' = [NoCall EXCEPT !.op = "remove_template", !.status = "ok",
                                    !.name = template_name,
                                    !.ret_bool = present]
    /\ prev' = NoPrev
    /\ UNCHANGED <<phase, config, color_ranges, input, threads, app>>

Next ==
    \/ \E dir \in Directories : Construct(dir)
    \/ \E page_num \in Pages, elapsed \in Durations : Detect(page_num, elapsed)
    \/ TemplateDetect
    \/ Consolidate
    \/ \E threshold \in Thresholds : Overlaps(threshold)
    \/ \E template \in TemplateImages : AddTemplate(template)
    \/ \E template_name \in {"seal", "tiny"} : RemoveTemplate(template_name)

Spec == Init /\ [][Next]_vars

(***************************************************************************)
(* Documents.  detect_multi_page takes the pages of a document, and        *)
(* get_detection_summary the result of a page; the pages here carry        *)
(* template peaks on both sides of the limits of the confidence bands.     *)
(***************************************************************************)
MaxPages == 2

PagePool ==
    << Hit("seal", 120, 120, 20, 20, 801),
       Hit("seal", 120, 120, 300, 20, 800),
       Hit("seal", 120, 120, 20, 300, 650),
       Hit("seal", 120, 120, 300, 300, 649),
       Contour(10, 440, 200, 40, 7600, 7800),
       Blob("engineering_red", 30, 30, 70, 70, 3848, 220) >>

Page(feats) == [kind |-> "image", width |-> 500, height |-> 500, feats |-> feats]

PageImages == { Page(fs) : fs \in Selections(PagePool) }

\* The pages documents are made of.
BookPages ==
    { Page(<<>>),
      Page(<< PagePool[1] >>),
      Page(<< PagePool[3], PagePool[5] >>),
      Page(<< PagePool[6], PagePool[4] >>) }

Documents ==
    { [kind |-> "pages", pages |-> ps] :
          ps \in UNION { [1..n -> BookPages] : n \in 0..MaxPages } }

PageInputs == PageImages \cup Documents

PageConfigs ==
    { DetectionConfig,
      [DetectionConfig EXCEPT !.template_confidence_threshold = 500,
                              !.min_confidence = 0],
      [DetectionConfig EXCEPT !.template_scale_steps = -1,
                              !.color_min_area = -5000],
      [DetectionConfig EXCEPT !.min_confidence = 850] }

PagesInit ==
    /\ phase = "new"
    /\ config \in PageConfigs
    /\ templates = <<>>
    /\ color_ranges = DefaultColorRanges
    /\ input \in PageInputs
    /\ call = NoCall
    /\ prev = NoPrev
    /\ threads = <<>>
    /\ NewApp

\* SealDetector.detect_multi_page(images); elapsed is the duration of a page.
DetectMultiPage(elapsed) ==
    /\ phase = "constructed"
    /\ input.kind = "pages"
    /\ LET run == DetectPages(input.pages, 0, templates, color_ranges, config,
                              elapsed)
       IN call' = [NoCall EXCEPT !.op = "detect_multi_page",
                                 !.status = run.status,
                                 !.results = run.results]
    /\ prev' = NoPrev
    /\ UNCHANGED <<phase, config, templates, color_ranges, input, threads, app>>

\* SealDetector.get_detection_summary(result), on the result of the last
\* detect or on the k-th result of the last detect_multi_page.
GetDetectionSummary(k) ==
    /\ phase = "constructed"
    /\ call.status = "ok"
    /\ \/ call.op = "detect" /\ k = 1
       \/ call.op = "detect_multi_page" /\ k \in 1..Len(call.results)
    /\ LET result == IF call.op = "detect" THEN call.result ELSE call.results[k]
       IN call' = [NoCall EXCEPT !.op = "get_detection_summary",
                                 !.status = "ok",
                                 !.result = result,
                                 !.summary = get_detection_summary(result)]
    /\ prev' = NoPrev
    /\ UNCHANGED <<phase, config, templates, color_ranges, input, threads, app>>

PagesNext ==
    \/ \E dir \in Directories : Construct(dir)
    \/ \E page_num \in Pages, elapsed \in Durations : Detect(page_num, elapsed)
    \/ \E elapsed \in Durations : DetectMultiPage(elapsed)
    \/ \E k \in 1..(MaxPages + 1) : GetDetectionSummary(k)

PagesSpec == PagesInit /\ [][PagesNext]_vars

(***************************************************************************)
(* The detectors and the suppression routines called one at a time, on     *)
(* pages whose contours lie on the bounds of the shape filters and on      *)
(* lists of up to MaxRegions regions.                                      *)
(***************************************************************************)
MaxRegions == 3

\* Contours around the default bounds of _is_signature_block: area in
\* (500, 10000), aspect ratio in (2, 8), width in (100, 800), height in
\* (30, 200); and red contours around the colour area bounds (300, 5000).
ShapePool ==
    << Contour(10, 10, 200, 40, 7600, 7800),
       Contour(10, 60, 101, 31, 500, 600),
       Contour(10, 100, 101, 31, 501, 600),
       Contour(10, 140, 300, 50, 10000, 10500),
       Contour(10, 200, 200, 100, 9000, 9500),
       Contour(10, 310, 400, 50, 9000, 9500),
       Contour(10, 370, 100, 40, 3000, 3100),
       Contour(10, 420, 150, 30, 4000, 4100),
       Contour(10, 460, 500, 200, 9000, 9900),
       Contour(10, 670, 800, 150, 9000, 9900),
       Contour(10, 830, 200, 40, 0, 0),
       Blob("engineering_red", 600, 10, 20, 20, 300, 62),
       Blob("engineering_red", 600, 40, 20, 20, 301, 62),
       Blob("engineering_red", 600, 70, 81, 81, 5000, 255),
       Blob("engineering_red", 600, 160, 81, 81, 4999, 255),
       Blob("engineering_red_wrap", 604, 160, 81, 81, 4800, 252),
       Blob("engineering_red", 600, 250, 150, 20, 2000, 400),
       Blob("engineering_red", 600, 350, 105, 50, 4123, 251),
       Blob("engineering_blue", 600, 300, 60, 40, 2000, 400) >>

\* The subsets of S of at most k members.
RECURSIVE SmallSubsets(_, _)
SmallSubsets(S, k) ==
    IF k = 0 THEN {{}}
    ELSE LET smaller == SmallSubsets(S, k - 1)
         IN smaller \cup { s \cup {x} : s \in smaller, x \in S }

ShapePages ==
    LET picked == { Pick(ShapePool, S) :
                        S \in SmallSubsets(1..Len(ShapePool), MaxFeats) }
    IN { [kind |-> "image", width |-> 1000, height |-> 1000, feats |-> fs] :
             fs \in picked \cup { Reverse(s) : s \in picked } }

ShortLists ==
    LET picked == { Pick(RegionPool, S) :
                        S \in { T \in SUBSET (1..Len(RegionPool)) :
                                    Cardinality(T) <= MaxRegions } }
    IN { [kind |-> "regions", regions |-> rs] :
             rs \in picked \cup { Reverse(s) : s \in picked } }

UnitInputs == ShapePages \cup ShortLists

UnitConfigs ==
    { DetectionConfig,
      [DetectionConfig EXCEPT !.nms_threshold = 0, !.contour_min_area = -1],
      [DetectionConfig EXCEPT !.nms_threshold = -100,
                              !.color_min_circularity = 990],
      [DetectionConfig EXCEPT !.nms_threshold = 1000,
                              !.color_min_area = -5000] }

\* A detector constructed without a template directory.
UnitInit ==
    /\ phase = "constructed"
    /\ config \in UnitConfigs
    /\ templates = <<>>
    /\ color_ranges = DefaultColorRanges
    /\ input \in UnitInputs
    /\ call = NoCall
    /\ prev = NoPrev
    /\ threads = <<>>
    /\ NewApp

\* TemplateMatcher._apply_non_max_suppression(regions), called directly.
TemplateNms ==
    /\ phase = "constructed"
    /\ input.kind = "regions"
    /\ call' = [NoCall EXCEPT !.op = "_apply_non_max_suppression",
                   !.status = "ok",
                   !.ret_regions = _apply_non_max_suppression(input.regions, config)]
    /\ prev' = NoPrev
    /\ UNCHANGED <<phase, config, templates, color_ranges, input, threads, app>>

\* ContourDetector._remove_overlaps(regions), called directly.
ContourRemoveOverlaps ==
    /\ phase = "constructed"
    /\ input.kind = "regions"
    /\ call' = [NoCall EXCEPT !.op = "contour_remove_overlaps",
                   !.status = "ok",
                   !.ret_regions = contour_remove_overlaps(input.regions)]
    /\ prev' = NoPrev
    /\ UNCHANGED <<phase, config, templates, color_ranges, input, threads, app>>

\* ColorDetector._remove_overlaps(regions), called directly.
ColorRemoveOverlaps ==
    /\ phase = "constructed"
    /\ input.kind = "regions"
    /\ call' = [NoCall EXCEPT !.op = "color_remove_overlaps",
                   !.status = "ok",
                   !.ret_regions = color_remove_overlaps(input.regions)]
    /\ prev' = NoPrev
    /\ UNCHANGED <<phase, config, templates, color_ranges, input, threads, app>>

\* ContourDetector.detect(image), called on the detector's contour detector;
\* contour_results is the list before _remove_overlaps.
ContourDetect ==
    /\ phase = "constructed"
    /\ input.kind = "image"
    /\ call' = [NoCall EXCEPT !.op = "contour_detect", !.status = "ok",
                   !.contour_results = ContourCandidates(input, config),
                   !.ret_regions = ContourDetector_detect(input, config)]
    /\ prev' = NoPrev
    /\ UNCHANGED <<phase, config, templates, color_ranges, input, threads, app>>

\* ColorDetector.detect(image), called on the detector's colour detector;
\* color_results is the list before _remove_overlaps.
ColorDetect ==
    /\ phase = "constructed"
    /\ input.kind = "image"
    /\ LET k == ColorDetector_detect(input, color_ranges, config)
       IN call' = [NoCall EXCEPT !.op = "color_detect", !.status = k.status,
                      !.color_results =
                          IF k.status = "ok"
                          THEN ColorCandidates(input, color_ranges, config)
                          ELSE <<>>,
                      !.ret_regions = k.regions]
    /\ prev' = NoPrev
    /\ UNCHANGED <<phase, config, templates, color_ranges, input, threads, app>>

UnitNext ==
    \/ Consolidate
    \/ TemplateNms
    \/ ContourRemoveOverlaps
    \/ ColorRemoveOverlaps
    \/ ContourDetect
    \/ ColorDetect

UnitSpec == UnitInit /\ [][UnitNext]_vars

(***************************************************************************)
(* The template matcher alone, on templates small enough for a scale       *)
(* factor to bring a side below 10 pixels.                                 *)
(***************************************************************************)
ScaleDirectories ==
    { [exists |-> TRUE, files |-> << File("mark", "png", TRUE, 18, 18) >>],
      [exists |-> TRUE, files |-> << File("dot", "png", TRUE, 8, 8) >>],
      [exists |-> TRUE, files |-> << File("seal", "png", TRUE, 80, 80),
                                     File("mark", "png", TRUE, 18, 18) >>] }

\* Peaks of the correlation maps of the templates at their own size and
\* at sizes the scale factors give.
ScalePool ==
    << Hit("mark", 18, 18, 50, 50, 900),
       Hit("mark", 27, 27, 50, 100, 880),
       Hit("dot", 8, 8, 100, 100, 800),
       Hit("dot", 12, 12, 100, 150, 820),
       Hit("seal", 80, 80, 200, 200, 850),
       Hit("seal", 16, 16, 300, 300, 700),
       Hit("seal", 120, 120, 350, 50, 860) >>

ScalePages == { Page(fs) : fs \in Selections(ScalePool) }

ScaleConfigs ==
    { DetectionConfig,
      [DetectionConfig EXCEPT !.template_scale_steps = 3],
      [DetectionConfig EXCEPT !.template_scale_range = <<10, 30>>,
                              !.template_scale_steps = 3] }

\* A matcher constructed on one of the directories.
ScaleInit ==
    /\ phase = "constructed"
    /\ config \in ScaleConfigs
    /\ templates \in { _load_templates(dir).templates : dir \in ScaleDirectories }
    /\ color_ranges = DefaultColorRanges
    /\ input \in ScalePages
    /\ call = NoCall
    /\ prev = NoPrev
    /\ threads = <<>>
    /\ NewApp

\* TemplateMatcher._match_template_multiscale(image, template, template_name),
\* called directly on the k-th template of the matcher.
MatchTemplateMultiscale(k) ==
    /\ phase = "constructed"
    /\ input.kind = "image"
    /\ k \in 1..Len(templates)
    /\ ~LinspaceRaises(config)
    /\ call' = [NoCall EXCEPT !.op = "_match_template_multiscale",
                   !.status = "ok",
                   !.name = templates[k].name,
                   !.ret_regions =
                       _match_template_multiscale(input, templates[k], config)]
    /\ prev' = NoPrev
    /\ UNCHANGED <<phase, config, templates, color_ranges, input, threads, app>>

ScaleNext ==
    \/ TemplateDetect
    \/ \E k \in 1..2 : MatchTemplateMultiscale(k)

ScaleSpec == ScaleInit /\ [][ScaleNext]_vars

(***************************************************************************)
(* Two callers in detect on the same detector at once.  Each caller has    *)
(* its own page and page number, and its own frame of locals; a step is    *)
(* one stage of detect.  The stages touch nothing but locals and read the  *)
(* detector's attributes, so finer steps commute with the other caller's.  *)
(***************************************************************************)
Callers == {1, 2}

NoThread ==
    [pc |-> "idle", page_num |-> -1, overlapped |-> FALSE,
     template_results |-> <<>>, contour_results |-> <<>>, results |-> <<>>,
     color_results |-> <<>>, consolidated_results |-> <<>>,
     result |-> NoResult]

PagePairs ==
    { [kind |-> "pair", images |-> <<first, second>>] :
          first \in BookPages, second \in BookPages }

\* A detector constructed on any of the template directories, not yet called.
ConcInit ==
    /\ phase = "constructed"
    /\ config \in PageConfigs
    /\ templates \in { _load_templates(dir).templates : dir \in Directories }
    /\ color_ranges = DefaultColorRanges
    /\ input \in PagePairs
    /\ call = NoCall
    /\ prev = NoPrev
    /\ threads = [t \in Callers |-> NoThread]
    /\ NewApp

\* A list of candidates kept on the detector and so used by every caller.
ResultsShared(t) == 1

\* ColorDetector.detect, line 70: `results = []` is a local of the call, so
\* each caller fills and reads the list of its own frame.
ResultsOwner(t) == t

\* detect, lines 63-69: the call starts.
Begin(t, page_num) ==
    /\ input.kind = "pair"
    /\ threads[t].pc = "idle"
    /\ threads' = [threads EXCEPT ![t] =
           [NoThread EXCEPT !.pc = "template", !.page_num = page_num,
               !.overlapped = \E u \in Callers \ {t} :
                   threads[u].pc \notin {"idle", "done", "raised"}]]
    /\ UNCHANGED <<phase, config, templates, color_ranges, input, call, prev, app>>

\* detect, line 75: template_results = self.template_matcher.detect(gray_image)
TemplateStep(t) ==
    /\ input.kind = "pair"
    /\ threads[t].pc = "template"
    /\ LET found == TemplateMatcher_detect(input.images[t], templates, config)
       IN threads' = [threads EXCEPT ![t] =
              IF found.status = "raised" THEN [@ EXCEPT !.pc = "raised"]
              ELSE [@ EXCEPT !.pc = "contour",
                             !.template_results = found.regions]]
    /\ UNCHANGED <<phase, config, templates, color_ranges, input, call, prev, app>>

\* detect, line 79: contour_results = self.contour_detector.detect(gray_image)
ContourStep(t) ==
    /\ input.kind = "pair"
    /\ threads[t].pc = "contour"
    /\ threads' = [threads EXCEPT ![t] =
           [@ EXCEPT !.pc = "color_scan",
                     !.contour_results =
                         ContourDetector_detect(input.images[t], config)]]
    /\ UNCHANGED <<phase, config, templates, color_ranges, input, call, prev, app>>

\* ColorDetector.detect, lines 63-80: the loop over the colour ranges.
ColorScan(t) ==
    /\ input.kind = "pair"
    /\ threads[t].pc = "color_scan"
    /\ IF ColorDetectRaises(input.images[t], color_ranges, config)
       THEN threads' = [threads EXCEPT ![t].pc = "raised"]
       ELSE threads' = [threads EXCEPT
                ![ResultsOwner(t)].results =
                    ColorCandidates(input.images[t], color_ranges, config),
                ![t].pc = "color_finish"]
    /\ UNCHANGED <<phase, config, templates, color_ranges, input, call, prev, app>>

\* ColorDetector.detect, lines 82-88: merge the reds, remove the overlaps.
ColorFinish(t) ==
    /\ input.kind = "pair"
    /\ threads[t].pc = "color_finish"
    /\ threads' = [threads EXCEPT ![t] =
           [@ EXCEPT !.pc = "consolidate",
                     !.color_results = color_remove_overlaps(
                         _merge_red_detections(
                             threads[ResultsOwner(t)].results))]]
    /\ UNCHANGED <<phase, config, templates, color_ranges, input, call, prev, app>>

\* detect, lines 87-91: concatenate and consolidate.
ConsolidateStep(t) ==
    /\ input.kind = "pair"
    /\ threads[t].pc = "consolidate"
    /\ threads' = [threads EXCEPT ![t] =
           [@ EXCEPT !.pc = "return",
                     !.consolidated_results = _consolidate_detections(
                         Concatenate(threads[t].template_results,
                                     threads[t].contour_results,
                                     threads[t].color_results), config)]]
    /\ UNCHANGED <<phase, config, templates, color_ranges, input, call, prev, app>>

\* detect, lines 94-124: filter, sort, stamp, build the result and return.
Return(t, elapsed) ==
    /\ input.kind = "pair"
    /\ threads[t].pc = "return"
    /\ threads' = [threads EXCEPT ![t] =
           [@ EXCEPT !.pc = "done",
                     !.result =
                         [page_num |-> threads[t].page_num,
                          regions |-> StampPage(
                              SortFiltered(FilterByConfidence(
                                  threads[t].consolidated_results, config)),
                              threads[t].page_num),
                          processing_time |-> elapsed,
                          image_dimensions |-> <<input.images[t].width,
                                                 input.images[t].height>>]]]
    /\ UNCHANGED <<phase, config, templates, color_ranges, input, call, prev, app>>

ConcNext ==
    \/ \E t \in Callers, page_num \in Pages : Begin(t, page_num)
    \/ \E t \in Callers : TemplateStep(t)
    \/ \E t \in Callers : ContourStep(t)
    \/ \E t \in Callers : ColorScan(t)
    \/ \E t \in Callers : ColorFinish(t)
    \/ \E t \in Callers : ConsolidateStep(t)
    \/ \E t \in Callers, elapsed \in Durations : Return(t, elapsed)

ConcSpec == ConcInit /\ [][ConcNext]_vars

(***************************************************************************)
(* Vocabulary of the properties.  The geometry here is the textbook one,   *)
(* written without reference to overlaps_with.                             *)
(***************************************************************************)
Returned == call.op = "detect" /\ call.status = "ok"

Regions == call.result.regions

InterArea(a, b) ==
    Max(0, Min(a.x + a.width, b.x + b.width) - Max(a.x, b.x))
    * Max(0, Min(a.y + a.height, b.y + b.height) - Max(a.y, b.y))

UnionArea(a, b) == a.width * a.height + b.width * b.height - InterArea(a, b)

\* IoU(a, b) <= threshold, with IoU = 0 when the union is empty.
IoUAtMost(a, b, threshold) ==
    UnionArea(a, b) = 0 \/ InterArea(a, b) * 1000 <= threshold * UnionArea(a, b)

Geometry(r) == <<r.x, r.y, r.width, r.height, r.confidence>>

Boxes(regions) == {Geometry(regions[i]) : i \in 1..Len(regions)}

(***************************************************************************)
(* C1.  Every two distinct regions of a result returned by detect have     *)
(* Intersection-over-Union at most nms_threshold (nms_threshold in [0,1]). *)
(***************************************************************************)
PairwiseIoUBounded ==
    (Returned /\ config.nms_threshold \in 0..1000) =>
        \A i, j \in 1..Len(Regions) :
            i # j => IoUAtMost(Regions[i], Regions[j], config.nms_threshold)

\* Two returned regions that do intersect, within the allowed overlap.
PairwiseIoUWitness ==
    /\ Returned
    /\ Len(Regions) >= 2
    /\ InterArea(Regions[1], Regions[2]) > 0

(***************************************************************************)
(* C2.  The regions of a returned result are in non-increasing order of    *)
(* confidence.                                                             *)
(***************************************************************************)
SortedByConfidence ==
    Returned =>
        \A i \in 1..(Len(Regions) - 1) :
            Regions[i].confidence >= Regions[i + 1].confidence

SortedWitness ==
    /\ Returned
    /\ Len(Regions) >= 2
    /\ Regions[1].confidence > Regions[2].confidence

(***************************************************************************)
(* C3.  Every region of a returned result has confidence in [0,1] and      *)
(* positive width and height, whatever the configuration and whichever     *)
(* detector produced it.                                                   *)
(***************************************************************************)
ConfidenceAndSizeInRange ==
    Returned =>
        \A i \in 1..Len(Regions) :
            /\ Regions[i].confidence \in 0..1000
            /\ Regions[i].width > 0
            /\ Regions[i].height > 0

(***************************************************************************)
(* C4.  Two calls of detect in a row on the same detector, with the same   *)
(* image, page number and configuration, return the same ordered sequence  *)
(* of regions (the image and the configuration do not change in a run of   *)
(* the model; the processing time is not compared).                        *)
(***************************************************************************)
Deterministic ==
    (call.op = "detect" /\ prev.op = "detect" /\ prev.page_num = call.page_num) =>
        /\ prev.status = call.status
        /\ prev.regions = Regions

DeterministicWitness ==
    /\ Returned
    /\ prev.op = "detect"
    /\ prev.page_num = call.page_num
    /\ Len(Regions) >= 2
    /\ \E i \in 1..Len(Regions) : Regions[i].detection_method = "template_matching"

(***************************************************************************)
(* C5.  In global consolidation, exchanging the method tags of two         *)
(* overlapping candidates of different detectors does not change which     *)
(* boxes survive.                                                          *)
(***************************************************************************)
Sources == <<call.template_results, call.contour_results, call.color_results>>

Retag(r, other) ==
    [r EXCEPT !.detection_method = other.detection_method,
              !.template_name = other.template_name,
              !.color = other.color]

\* The three candidate lists after candidate i of list m and candidate j of
\* list n have exchanged their tags, and so their places.
Exchanged(m, i, n, j) ==
    [k \in 1..3 |->
        [p \in 1..Len(Sources[k]) |->
            IF k = m /\ p = i THEN Retag(Sources[n][j], Sources[m][i])
            ELSE IF k = n /\ p = j THEN Retag(Sources[m][i], Sources[n][j])
            ELSE Sources[k][p]]]

Survivors(lists) ==
    Boxes(_consolidate_detections(Concatenate(lists[1], lists[2], lists[3]), config))

CrossPairs ==
    {q \in (1..3) \X (1..MaxFeats + 3) \X (1..3) \X (1..MaxFeats + 3) :
        /\ q[1] < q[3]
        /\ q[2] <= Len(Sources[q[1]])
        /\ q[4] <= Len(Sources[q[3]])
        /\ ~IoUAtMost(Sources[q[1]][q[2]], Sources[q[3]][q[4]], config.nms_threshold)}

\* No other candidate has the confidence of one of the two.
ConfidenceUnshared(q) ==
    LET a == Sources[q[1]][q[2]]
        b == Sources[q[3]][q[4]]
    IN /\ a.confidence # b.confidence
       /\ \A k \in 1..3 : \A p \in 1..Len(Sources[k]) :
             (<<k, p>> # <<q[1], q[2]>> /\ <<k, p>> # <<q[3], q[4]>>) =>
                 /\ Sources[k][p].confidence # a.confidence
                 /\ Sources[k][p].confidence # b.confidence

\* The claim as stated: also when the confidences are equal.
TagExchangeNeverMatters ==
    Returned =>
        \A q \in CrossPairs :
            Survivors(Exchanged(q[1], q[2], q[3], q[4])) = Survivors(Sources)

\* C5 as amended: the exchange does not change the surviving boxes when the
\* two confidences differ from each other and from every other candidate's.
TagExchangeWithDistinctConfidence ==
    Returned =>
        \A q \in CrossPairs :
            ConfidenceUnshared(q) =>
                Survivors(Exchanged(q[1], q[2], q[3], q[4])) = Survivors(Sources)

\* A template candidate and a colour candidate overlap, the confidences
\* differ, and only the box of the higher one survives.
TagExchangeWitness ==
    /\ Returned
    /\ \E q \in CrossPairs :
          /\ ConfidenceUnshared(q)
          /\ LET a == Sources[q[1]][q[2]]
                 b == Sources[q[3]][q[4]]
             IN /\ a.confidence < b.confidence
                /\ Geometry(b) \in Boxes(call.consolidated_results)
                /\ Geometry(a) \notin Boxes(call.consolidated_results)

(***************************************************************************)
(* C6.  Consolidation of exactly two candidates whose IoU exceeds          *)
(* nms_threshold and whose confidences differ keeps only the candidate of  *)
(* higher confidence, in whichever order the two are supplied.             *)
(***************************************************************************)
TwoSupplied == call.op = "consolidate" /\ Len(input.regions) = 2

HigherOf(a, b) == IF a.confidence > b.confidence THEN a ELSE b

ZeroIntersection(a, b) == InterArea(a, b) = 0

DisjointNeverOverlap ==
    /\ (/\ call.op = "overlaps_with"
        /\ call.threshold \in 0..1000
        /\ ZeroIntersection(input.regions[1], input.regions[2])) =>
            /\ call.ret_bool = FALSE
            /\ NoIntersection(input.regions[1], input.regions[2])
                   \/ iou(input.regions[1], input.regions[2])[1] = 0
    /\ (/\ TwoSupplied
        /\ config.nms_threshold \in 0..1000
        /\ ZeroIntersection(input.regions[1], input.regions[2])) =>
            Len(call.ret_regions) = 2

\* Two boxes that share an edge, asked at threshold 0.
DisjointWitness ==
    /\ call.op = "overlaps_with"
    /\ call.threshold = 0
    /\ ZeroIntersection(input.regions[1], input.regions[2])
    /\ ~NoIntersection(input.regions[1], input.regions[2])
    /\ area(input.regions[1]) > 0
    /\ call.ret_bool = FALSE

(***************************************************************************)
(* C8.  The regions detect returns are exactly the survivors of the        *)
(* global consolidation whose confidence is at least min_confidence.       *)
(***************************************************************************)
Unstamped(r) == [r EXCEPT !.page_num = 0]

Qualifying ==
    {i \in 1..Len(call.consolidated_results) :
        call.consolidated_results[i].confidence >= config.min_confidence}

ExactlyTheConfidentSurvivors ==
    Returned =>
        /\ \A i \in 1..Len(Regions) : Regions[i].confidence >= config.min_confidence
        /\ \A i \in Qualifying :
              \E j \in 1..Len(Regions) :
                  Unstamped(Regions[j]) = call.consolidated_results[i]
        /\ \A j \in 1..Len(Regions) :
              \E i \in Qualifying :
                  Unstamped(Regions[j]) = call.consolidated_results[i]
        /\ Len(Regions) = Cardinality(Qualifying)

\* A survivor whose confidence equals min_confidence is returned.
ConfidentSurvivorsWitness ==
    /\ Returned
    /\ \E j \in 1..Len(Regions) : Regions[j].confidence = config.min_confidence

(***************************************************************************)
(* C9.  The page number of a returned result, and of every region in it,   *)
(* is the page number the caller supplied.                                 *)
(***************************************************************************)
PageNumberStamped ==
    Returned =>
        /\ call.result.page_num = call.page_num
        /\ \A i \in 1..Len(Regions) : Regions[i].page_num = call.page_num

\* The detectors leave page_num at 0; the caller asked for page 1.
PageNumberWitness ==
    /\ Returned
    /\ call.page_num = 1
    /\ Len(Regions) >= 1

(***************************************************************************)
(* C10.  A missing template directory, or one without a loadable           *)
(* template, is no error: construction succeeds with no templates,         *)
(* TemplateMatcher.detect returns the empty list, and detect returns the   *)
(* result of the contour and colour candidates alone.                      *)
(***************************************************************************)
WithoutTemplates(image, page_num, cfg) ==
    StampPage(SortFiltered(FilterByConfidence(
        _consolidate_detections(
            Concatenate(<<>>, ContourDetector_detect(image, cfg),
                        ColorDetector_detect(image, color_ranges, cfg).regions),
            cfg), cfg)), page_num)

DetectNeverRaises ==
    call.op = "detect" => call.status = "ok"

(***************************************************************************)
(* C17.  After any sequence of add_template and remove_template calls,     *)
(* get_template_names() is the set of names loaded or added and not since  *)
(* removed: construction sets it to the loaded names, add_template adds    *)
(* its name, remove_template(name) returns True and deletes the name       *)
(* exactly when it was present and otherwise returns False and changes     *)
(* nothing, and no other call changes it.  A matcher call uses the set as  *)
(* it is when the call starts, and returns the empty list once it is       *)
(* empty.                                                                  *)
(***************************************************************************)
ReadableStems(dir) ==
    IF ~dir.exists THEN {}
    ELSE { dir.files[i].stem : i \in { k \in 1..Len(dir.files) :
               /\ dir.files[k].ext \in {"png", "jpg", "jpeg"}
               /\ dir.files[k].readable } }

NameSet(tmpls) == { tmpls[i].name : i \in 1..Len(tmpls) }

NamesListedOnce(names) ==
    \A i, j \in 1..Len(names) : names[i] = names[j] => i = j

TemplateSetStep ==
    LET before == NameSet(templates)
        after == { get_template_names(templates')[i] :
                       i \in 1..Len(get_template_names(templates')) }
    IN /\ NamesListedOnce(get_template_names(templates'))
       /\ call'.op = "construct" => after = ReadableStems(call'.dir)
       /\ call'.op = "add_template" => after = before \cup {call'.name}
       /\ call'.op = "remove_template" =>
             /\ call'.ret_bool = (call'.name \in before)
             /\ after = before \ {call'.name}
             /\ ~call'.ret_bool => templates' = templates
       /\ call'.op \notin {"construct", "add_template", "remove_template"} =>
             templates' = templates
       /\ call'.op \in {"template_detect", "detect"} /\ call'.status = "ok" =>
             LET found == IF call'.op = "detect" THEN call'.template_results
                          ELSE call'.ret_regions
             IN /\ \A i \in 1..Len(found) : found[i].template_name \in before
                /\ before = {} => found = <<>>

TemplateSetFollowsCalls == [][TemplateSetStep]_vars

\* One of two templates was removed; the other is still listed.
TemplateSetWitness ==
    /\ call.op = "remove_template"
    /\ call.ret_bool
    /\ call.name = "seal"
    /\ get_template_names(templates) = << "tiny" >>

(***************************************************************************)
(* C18.  After TemplateMatcher is constructed the template set holds one   *)
(* named template for each readable image file (.png, .jpg, .jpeg) of the  *)
(* template directory, keyed by the file's stem, so that there are as many *)
(* templates as readable image files; an unreadable file contributes       *)
(* nothing and does not stop the others from loading.                      *)
(***************************************************************************)
OneTemplatePerReadableFile ==
    call.op = "construct" =>
        /\ call.status = "ok"
        /\ NameSet(templates) = ReadableStems(call.dir)
        /\ Len(templates) = ReadableImageFiles(call.dir)

\* The same with the templates counted per stem: files that share a stem
\* share one entry, which holds the file read last (png, then jpg, jpeg).
LoadOrder(dir) ==
    SelectSeq(dir.files, LAMBDA f: f.ext = "png" /\ f.readable)
    \o SelectSeq(dir.files, LAMBDA f: f.ext = "jpg" /\ f.readable)
    \o SelectSeq(dir.files, LAMBDA f: f.ext = "jpeg" /\ f.readable)

LastWithStem(dir, stem) ==
    LET order == LoadOrder(dir)
        last == CHOOSE i \in 1..Len(order) :
                    /\ order[i].stem = stem
                    /\ \A j \in (i + 1)..Len(order) : order[j].stem # stem
    IN order[last]

OneTemplatePerReadableStem ==
    call.op = "construct" =>
        /\ call.status = "ok"
        /\ NameSet(templates) = ReadableStems(call.dir)
        /\ Len(templates) = Cardinality(ReadableStems(call.dir))
        /\ \A i \in 1..Len(templates) :
              LET f == LastWithStem(call.dir, templates[i].name)
              IN templates[i].w = f.w /\ templates[i].h = f.h

\* seal.png and seal.jpg are both readable and load into one entry.
SharedStemWitness ==
    /\ call.op = "construct"
    /\ ReadableImageFiles(call.dir) = 2
    /\ get_template_names(templates) = << "seal" >>

(***************************************************************************)
(* C13.  detect, detect_multi_page and get_detection_summary leave the     *)
(* detector as it was: after the call the template set, every field of    *)
(* the DetectionConfig and the table of colour ranges are what they were   *)
(* before it, and the detector is constructed and idle again.              *)
(***************************************************************************)
ReadOnlyCalls == {"detect", "detect_multi_page", "get_detection_summary"}

ReadOnlyStep ==
    call'.op \in ReadOnlyCalls =>
        /\ templates' = templates
        /\ \A field \in DOMAIN config : config'[field] = config[field]
        /\ DOMAIN config' = DOMAIN config
        /\ color_ranges' = color_ranges
        /\ phase' = "constructed"

DetectorStateKept == [][ReadOnlyStep]_vars

\* A document was processed and one of its results summarised, by a
\* detector that holds templates.
DetectorStateKeptWitness ==
    /\ call.op = "get_detection_summary"
    /\ input.kind = "pages"
    /\ templates # <<>>
    /\ call.summary.total_detections >= 1

(***************************************************************************)
(* C14.  detect_multi_page(images) returns one DetectionResult per image,  *)
(* in the order of the images; the k-th result carries page number k       *)
(* (from 0) and has the regions that detect(images[k], k) returns when it  *)
(* is called alone, whatever the other pages are.                          *)
(***************************************************************************)
Alone(k, elapsed) ==
    DetectReturn(DetectRun(input.pages[k], templates, color_ranges, config),
                 input.pages[k], k - 1, elapsed, config)

Summarised == call.op = "get_detection_summary"

Count(regions, Test(_)) == Cardinality({ i \in 1..Len(regions) : Test(regions[i]) })

BandsPartition ==
    Summarised =>
        LET regions == call.result.regions
            bands == call.summary.by_confidence
            methods == call.summary.by_method
        IN /\ bands.high = Count(regions, LAMBDA r: r.confidence > 800)
           /\ bands.medium = Count(regions, LAMBDA r: r.confidence >= 650
                                                     /\ r.confidence <= 800)
           /\ bands.low = Count(regions, LAMBDA r: r.confidence < 650)
           /\ call.summary.total_detections = Len(regions)
           /\ bands.high + bands.medium + bands.low =
                  call.summary.total_detections
           /\ methods.template_matching + methods.contour_detection
                  + methods.color_detection = call.summary.total_detections

\* A region at exactly 0.8 is medium, next to one above it that is high.
BandsPartitionWitness ==
    /\ Summarised
    /\ \E i \in 1..Len(call.result.regions) :
           call.result.regions[i].confidence = 800
    /\ call.summary.by_confidence.high = 1
    /\ call.summary.by_confidence.medium = 1

(***************************************************************************)
(* C16.  On an image whose only coloured content is one red blob with      *)
(* circularity above color_min_circularity and an area in the closed       *)
(* interval from color_min_area to color_max_area, end points included,    *)
(* ColorDetector.detect returns at least one region tagged "red" with      *)
(* confidence at least 0.6.                                                *)
(***************************************************************************)
Blobs(image) == SelectSeq(image.feats, LAMBDA f: f.kind = "blob")

OneRoundRedBlob ==
    /\ call.op = "color_detect"
    /\ Len(Blobs(input)) = 1
    /\ Blobs(input)[1].range \in {"engineering_red", "engineering_red_wrap"}
    /\ circularity(Blobs(input)[1]) > config.color_min_circularity

RedFound ==
    /\ call.status = "ok"
    /\ \E i \in 1..Len(call.ret_regions) :
          /\ call.ret_regions[i].color = "red"
          /\ call.ret_regions[i].confidence >= 600

Ranking(list) ==
    CHOOSE p \in [1..Len(list) -> 1..Len(list)] :
        \A i, j \in 1..Len(list) :
            i < j => \/ list[p[i]].confidence > list[p[j]].confidence
                     \/ /\ list[p[i]].confidence = list[p[j]].confidence
                        /\ p[i] < p[j]

Ranked(list) == [i \in 1..Len(list) |-> list[Ranking(list)[i]]]

\* IoU(a, b) > threshold, with IoU = 0 when the union is empty.
IoUAbove(a, b, threshold) ==
    IF UnionArea(a, b) = 0 THEN 0 > threshold
    ELSE InterArea(a, b) * 1000 > threshold * UnionArea(a, b)

\* Whether the boxes share at least a point of their borders.
Meet(a, b) ==
    /\ Min(a.x + a.width, b.x + b.width) >= Max(a.x, b.x)
    /\ Min(a.y + a.height, b.y + b.height) >= Max(a.y, b.y)

RECURSIVE Greedy(_, _)
Greedy(remaining, threshold) ==
    IF remaining = <<>> THEN <<>>
    ELSE << Head(remaining) >>
         \o Greedy(SelectSeq(Tail(remaining),
                       LAMBDA r: ~IoUAbove(Head(remaining), r, threshold)),
                   threshold)

RECURSIVE GreedyAmongMeeting(_, _)
GreedyAmongMeeting(remaining, threshold) ==
    IF remaining = <<>> THEN <<>>
    ELSE << Head(remaining) >>
         \o GreedyAmongMeeting(SelectSeq(Tail(remaining),
                LAMBDA r: ~(Meet(Head(remaining), r)
                            /\ IoUAbove(Head(remaining), r, threshold))),
                threshold)

Suppressions ==
    {"consolidate", "_apply_non_max_suppression", "contour_remove_overlaps",
     "color_remove_overlaps"}

ThresholdOf(op) ==
    CASE op = "contour_remove_overlaps" -> 500
      [] op = "color_remove_overlaps" -> 300
      [] OTHER -> config.nms_threshold

SuppressionIsGreedy ==
    call.op \in Suppressions =>
        call.ret_regions = Greedy(Ranked(input.regions), ThresholdOf(call.op))

\* The same with a candidate dropped only when its box also meets the kept
\* one, which is no restriction for a threshold of 0 or more.
SuppressionIsGreedyAmongMeeting ==
    call.op \in Suppressions =>
        /\ call.ret_regions =
               GreedyAmongMeeting(Ranked(input.regions), ThresholdOf(call.op))
        /\ ThresholdOf(call.op) >= 0 =>
               call.ret_regions =
                   Greedy(Ranked(input.regions), ThresholdOf(call.op))

\* Three candidates of which the first suppresses the second, and the
\* third, which only the second overlaps, is kept.
SuppressionWitness ==
    /\ call.op = "_apply_non_max_suppression"
    /\ Len(input.regions) = 3
    /\ Len(call.ret_regions) = 2
    /\ LET s == Ranked(input.regions)
       IN /\ IoUAbove(s[1], s[2], config.nms_threshold)
          /\ IoUAbove(s[2], s[3], config.nms_threshold)
          /\ ~IoUAbove(s[1], s[3], config.nms_threshold)

(***************************************************************************)
(* C20.  ContourDetector.detect emits a candidate for a non-degenerate     *)
(* contour exactly when all four tests pass: area strictly between         *)
(* contour_min_area and contour_max_area, aspect ratio strictly between    *)
(* its bounds, width strictly between its bounds, height strictly between  *)
(* its bounds.  A contour that fails a test, or has zero area, yields no   *)
(* region.                                                                 *)
(***************************************************************************)
Strictly(lo, value, hi) == lo < value /\ value < hi

AllFourTestsPass(contour, cfg) ==
    /\ contour.area # 0
    /\ contour.h > 0
    /\ Strictly(cfg.contour_min_area, contour.area, cfg.contour_max_area)
    /\ Strictly(cfg.contour_min_aspect_ratio * contour.h, contour.w * 1000,
                cfg.contour_max_aspect_ratio * contour.h)
    /\ Strictly(cfg.contour_min_width, contour.w, cfg.contour_max_width)
    /\ Strictly(cfg.contour_min_height, contour.h, cfg.contour_max_height)

EmitsIffAllTestsPass ==
    call.op = "contour_detect" =>
        LET passing == SelectSeq(input.feats,
                           LAMBDA f: f.kind = "contour"
                                     /\ AllFourTestsPass(f, config))
            emitted == call.contour_results
        IN /\ Len(emitted) = Len(passing)
           /\ \A i \in 1..Len(emitted) :
                 /\ emitted[i].x = passing[i].x /\ emitted[i].y = passing[i].y
                 /\ emitted[i].width = passing[i].w
                 /\ emitted[i].height = passing[i].h
                 /\ emitted[i].detection_method = "contour_detection"
           /\ \A j \in 1..Len(call.ret_regions) :
                 \E i \in 1..Len(emitted) : call.ret_regions[j] = emitted[i]

\* Of two contours of the same box, the one with an area of exactly
\* contour_min_area is dropped and the one a unit above it is emitted.
EmitsWitness ==
    /\ call.op = "contour_detect"
    /\ \E i \in 1..Len(input.feats) :
          /\ input.feats[i].kind = "contour"
          /\ input.feats[i].area = config.contour_min_area
    /\ \E i \in 1..Len(input.feats) :
          /\ input.feats[i].kind = "contour"
          /\ input.feats[i].area = config.contour_min_area + 1
    /\ Len(call.contour_results) = 1
    /\ Len(call.ret_regions) = 1

(***************************************************************************)
(* C12.  Two detect calls that run at once on the same detector, each on   *)
(* its own image and page number, with no template added or removed        *)
(* meanwhile, each return what the call returns when it runs alone: under  *)
(* every interleaving, a caller's candidate lists, regions and page number *)
(* are those of its own call, never the other's.                           *)
(***************************************************************************)
AloneOn(t) ==
    DetectReturn(DetectRun(input.images[t], templates, color_ranges, config),
                 input.images[t], threads[t].page_num, 1, config)

Past(t, stages) == threads[t].pc \in stages

CallerAsAlone(t) ==
    LET mine == threads[t]
        alone == AloneOn(t)
    IN /\ Past(t, {"raised"}) => alone.status = "raised"
       /\ Past(t, {"contour", "color_scan", "color_finish", "consolidate",
                   "return", "done"}) =>
              mine.template_results =
                  TemplateMatcher_detect(input.images[t], templates, config).regions
       /\ Past(t, {"color_scan", "color_finish", "consolidate", "return",
                   "done"}) =>
              mine.contour_results =
                  ContourDetector_detect(input.images[t], config)
       /\ Past(t, {"color_finish"}) =>
              mine.results =
                  ColorCandidates(input.images[t], color_ranges, config)
       /\ Past(t, {"consolidate", "return", "done"}) =>
              /\ alone.status = "ok"
              /\ mine.color_results = alone.color_results
       /\ Past(t, {"return", "done"}) =>
              mine.consolidated_results = alone.consolidated_results
       /\ Past(t, {"done"}) =>
              /\ mine.result.page_num = mine.page_num
              /\ mine.result.regions = alone.result.regions
              /\ mine.result.image_dimensions = alone.result.image_dimensions
              /\ \A i \in 1..Len(mine.result.regions) :
                     mine.result.regions[i].page_num = mine.page_num

ConcurrentCallsAsAlone ==
    input.kind = "pair" => \A t \in Callers : CallerAsAlone(t)

\* Both callers have returned regions of different pages under different
\* page numbers, and one began while the other was inside detect.
ConcurrentCallsWitness ==
    /\ input.kind = "pair"
    /\ \A t \in Callers : threads[t].pc = "done"
    /\ \E t \in Callers : threads[t].overlapped
    /\ threads[1].page_num # threads[2].page_num
    /\ Len(threads[1].result.regions) >= 1
    /\ Len(threads[2].result.regions) >= 1
    /\ Boxes(threads[1].result.regions) # Boxes(threads[2].result.regions)

(***************************************************************************)
(* C21.  ColorDetector emits a candidate for a contour of non-zero         *)
(* perimeter exactly when its area lies within the colour area bounds and  *)
(* it is circular (circularity above color_min_circularity) or squarish    *)
(* (aspect ratio between 0.5 and 2.0): a circular contour outside the area *)
(* bounds is rejected, a squarish one inside them is accepted.             *)
(***************************************************************************)
Qualifies(blob, cfg) ==
    /\ blob.perimeter # 0
    /\ Strictly(cfg.color_min_area, blob.area, cfg.color_max_area)
    /\ \/ circularity(blob) > cfg.color_min_circularity
       \/ blob.h > 0 /\ Strictly(500 * blob.h, 1000 * blob.w, 2000 * blob.h)

Box(x, y, w, h) == <<x, y, w, h>>

ColorEmitsIffQualifies ==
    call.op = "color_detect" =>
        LET qualifying == SelectSeq(Blobs(input),
                              LAMBDA b: Qualifies(b, config))
        IN /\ call.status = "ok"
           /\ Len(call.color_results) = Len(qualifying)
           /\ { Box(call.color_results[i].x, call.color_results[i].y,
                    call.color_results[i].width, call.color_results[i].height) :
                    i \in 1..Len(call.color_results) }
              = { Box(qualifying[i].x, qualifying[i].y, qualifying[i].w,
                      qualifying[i].h) : i \in 1..Len(qualifying) }

(***************************************************************************)
(* C22.  In multi-scale template matching a scale factor at which the      *)
(* resized template would have a side below 10 pixels is skipped and       *)
(* yields no candidate, so every template region's width and height are    *)
(* the template's width and height times one of the configured scale       *)
(* factors (truncated to integers), and are at least 10.                   *)
(***************************************************************************)
Scaled(side, scale) == (side * scale[1]) \div scale[2]

Matched == call.op \in {"template_detect", "_match_template_multiscale"}

SmallScalesSkipped ==
    (Matched /\ call.status = "ok") =>
        \A i \in 1..Len(call.ret_regions) :
            LET r == call.ret_regions[i]
            IN /\ r.width >= 10
               /\ r.height >= 10
               /\ \E k \in 1..Len(templates), j \in 1..Len(scales(config)) :
                     /\ templates[k].name = r.template_name
                     /\ r.width = Scaled(templates[k].w, scales(config)[j])
                     /\ r.height = Scaled(templates[k].h, scales(config)[j])

(***************************************************************************)
(* C23.  In the overlap suppression of detect a candidate is discarded     *)
(* only on account of a kept candidate whose confidence is at least its    *)
(* own; so no candidate below min_confidence removes a region at or above  *)
(* it, and filtering by min_confidence before the consolidation gives the  *)
(* region list that filtering after it gives.                              *)
(***************************************************************************)
Candidates ==
    call.template_results \o call.contour_results \o call.color_results

Confident(list) == SelectSeq(list, LAMBDA r: r.confidence >= config.min_confidence)

OnPage(list, page_num) ==
    [i \in 1..Len(list) |-> [list[i] EXCEPT !.page_num = page_num]]

Members(list) == {list[i] : i \in 1..Len(list)}

FilterCommutesWithConsolidation ==
    Returned =>
        /\ \A d \in Members(Candidates) \ Members(call.consolidated_results) :
               \E k \in Members(call.consolidated_results) :
                   /\ k.confidence >= d.confidence
                   /\ Meet(k, d)
                   /\ IoUAbove(k, d, config.nms_threshold)
        /\ Regions = OnPage(GreedyAmongMeeting(Ranked(Confident(Candidates)),
                                               config.nms_threshold),
                            call.page_num)

\* A candidate below min_confidence that overlaps a returned region and was
\* found before it.
FilterCommutesWitness ==
    /\ Returned
    /\ \E i, j \in 1..Len(Candidates) :
          /\ i < j
          /\ Candidates[i].confidence < config.min_confidence
          /\ Candidates[j].confidence >= config.min_confidence
          /\ Meet(Candidates[i], Candidates[j])
          /\ IoUAbove(Candidates[i], Candidates[j], config.nms_threshold)
          /\ \E r \in Members(Regions) : Geometry(r) = Geometry(Candidates[j])

(***************************************************************************)
(* The page navigator on its own: loads, navigation and clear.             *)
(***************************************************************************)
MaxDocPages == 2

\* A PDF of n pages; fitz.open raises when opens is FALSE, and rendering
\* page fails_at raises (0: every page renders).
Pdf(name, n, opens, fails_at) ==
    [path |-> name, kind |-> "pdf", pages |-> n, opens |-> opens,
     fails_at |-> fails_at]

\* An image file; Image.open raises when opens is FALSE.
ImageFile(name, opens) ==
    [path |-> name, kind |-> "image", pages |-> 1, opens |-> opens,
     fails_at |-> 0]

NavFiles ==
    { Pdf(<<"doc", n, k>>, n, TRUE, k) : n \in 1..MaxDocPages, k \in 0..MaxDocPages }
    \cup { Pdf("broken.pdf", 1, FALSE, 0),
           ImageFile("scan.png", TRUE), ImageFile("broken.png", FALSE) }

\* The rendered image of page i (from 0) of a file.
PageImage(f, i) == <<f.path, i>>

\* What a navigator call hands back, with the navigator after it.
NavReturn(nav, ret) == [nav |-> nav, ret |-> ret]

\* PageNavigator.load_multi_page_pdf(pdf_path)
load_multi_page_pdf(nav, f) ==
    IF ~f.opens \/ f.kind # "pdf" THEN NavReturn(nav, FALSE)
    ELSE LET opened == [nav EXCEPT !.total_pages = f.pages,
                                   !.page_images = <<>>,
                                   !.page_results = <<>>]
             rendered == IF f.fails_at \in 1..f.pages THEN f.fails_at - 1
                         ELSE f.pages
             loaded == [opened EXCEPT !.page_images =
                           [i \in 1..rendered |-> PageImage(f, i - 1)]]
         IN IF f.fails_at \in 1..f.pages THEN NavReturn(loaded, FALSE)
            ELSE NavReturn([loaded EXCEPT !.current_page = 0,
                                          !.current_filepath = f.path], TRUE)

\* PageNavigator.load_single_image(image_path)
load_single_image(nav, f) ==
    IF ~f.opens \/ f.kind # "image" THEN NavReturn(nav, FALSE)
    ELSE NavReturn([nav EXCEPT !.page_images = << PageImage(f, 0) >>,
                               !.page_results = <<>>,
                               !.total_pages = 1,
                               !.current_page = 0,
                               !.current_filepath = f.path], TRUE)

\* PageNavigator.navigate_to_page(page_num)
navigate_to_page(nav, page_num) ==
    IF nav.page_images = <<>> THEN NavReturn(nav, FALSE)
    ELSE IF 0 <= page_num /\ page_num < nav.total_pages
         THEN NavReturn([nav EXCEPT !.current_page = page_num], TRUE)
         ELSE NavReturn(nav, FALSE)

\* PageNavigator.get_current_page_image()
get_current_page_image(nav) ==
    IF 0 <= nav.current_page /\ nav.current_page < Len(nav.page_images)
    THEN nav.page_images[nav.current_page + 1]
    ELSE None

\* PageNavigator.clear()
navigator_clear(nav) ==
    [nav EXCEPT !.page_images = <<>>, !.page_results = <<>>,
                !.current_page = 0, !.total_pages = 0,
                !.current_filepath = None]

\* The last call on the navigator: operation, argument, returned value.
NavCall(op, arg, ret) == [op |-> op, arg |-> arg, ret |-> ret]

NavInit ==
    /\ phase = "constructed"
    /\ config = DetectionConfig
    /\ templates = <<>>
    /\ color_ranges = DefaultColorRanges
    /\ input = Page(<<>>)
    /\ call = NavCall("__init__", None, None)
    /\ prev = NoPrev
    /\ threads = <<>>
    /\ NewApp

\* PageNavigator.load_multi_page_pdf(pdf_path)
LoadMultiPagePdf(f) ==
    /\ navigator' = load_multi_page_pdf(navigator, f).nav
    /\ call' = NavCall("load_multi_page_pdf", f.path, load_multi_page_pdf(navigator, f).ret)
    /\ UNCHANGED <<phase, config, templates, color_ranges, input, prev,
                   threads, batch, cache, recency>>

\* PageNavigator.load_single_image(image_path)
LoadSingleImage(f) ==
    /\ navigator' = load_single_image(navigator, f).nav
    /\ call' = NavCall("load_single_image", f.path, load_single_image(navigator, f).ret)
    /\ UNCHANGED <<phase, config, templates, color_ranges, input, prev,
                   threads, batch, cache, recency>>

\* PageNavigator.navigate_to_page(page_num)
NavigateToPage(page_num) ==
    /\ navigator' = navigate_to_page(navigator, page_num).nav
    /\ call' = NavCall("navigate_to_page", page_num, navigate_to_page(navigator, page_num).ret)
    /\ UNCHANGED <<phase, config, templates, color_ranges, input, prev,
                   threads, batch, cache, recency>>

\* PageNavigator.next_page()
NextPage ==
    /\ navigator' = navigate_to_page(navigator, navigator.current_page + 1).nav
    /\ call' = NavCall("next_page", None, navigate_to_page(navigator, navigator.current_page + 1).ret)
    /\ UNCHANGED <<phase, config, templates, color_ranges, input, prev,
                   threads, batch, cache, recency>>

\* PageNavigator.previous_page()
PreviousPage ==
    /\ navigator' = navigate_to_page(navigator, navigator.current_page - 1).nav
    /\ call' = NavCall("previous_page", None, navigate_to_page(navigator, navigator.current_page - 1).ret)
    /\ UNCHANGED <<phase, config, templates, color_ranges, input, prev,
                   threads, batch, cache, recency>>

\* PageNavigator.first_page()
FirstPage ==
    /\ navigator' = navigate_to_page(navigator, 0).nav
    /\ call' = NavCall("first_page", None, navigate_to_page(navigator, 0).ret)
    /\ UNCHANGED <<phase, config, templates, color_ranges, input, prev,
                   threads, batch, cache, recency>>

\* PageNavigator.last_page()
LastPage ==
    /\ navigator' = navigate_to_page(navigator, navigator.total_pages - 1).nav
    /\ call' = NavCall("last_page", None, navigate_to_page(navigator, navigator.total_pages - 1).ret)
    /\ UNCHANGED <<phase, config, templates, color_ranges, input, prev,
                   threads, batch, cache, recency>>

\* PageNavigator.get_current_page_image()
GetCurrentPageImage ==
    /\ call' = NavCall("get_current_page_image", None,
                       get_current_page_image(navigator))
    /\ UNCHANGED <<phase, config, templates, color_ranges, input, prev,
                   threads, app>>

\* PageNavigator.clear()
NavigatorClear ==
    /\ navigator' = navigator_clear(navigator)
    /\ call' = NavCall("clear", None, None)
    /\ UNCHANGED <<phase, config, templates, color_ranges, input, prev,
                   threads, batch, cache, recency>>

NavNext ==
    \/ \E f \in NavFiles : LoadMultiPagePdf(f)
    \/ \E f \in NavFiles : LoadSingleImage(f)
    \/ \E page_num \in -1..MaxDocPages : NavigateToPage(page_num)
    \/ NextPage
    \/ PreviousPage
    \/ FirstPage
    \/ LastPage
    \/ GetCurrentPageImage
    \/ NavigatorClear

NavSpec == NavInit /\ [][NavNext]_vars

(***************************************************************************)
(* C30.  After any sequence of navigator operations, failed loads          *)
(* included, total_pages equals len(page_images) and, when page_images is  *)
(* non-empty, 0 <= current_page < total_pages, so that                     *)
(* get_current_page_image() returns a page.                                *)
(***************************************************************************)
NavigatorConsistent ==
    /\ navigator.total_pages = Len(navigator.page_images)
    /\ navigator.page_images # <<>> =>
          /\ 0 <= navigator.current_page
          /\ navigator.current_page < navigator.total_pages
          /\ get_current_page_image(navigator) # None

(***************************************************************************)
(* The processing cache on its own: get, put, invalidate, clear, resize.   *)
(***************************************************************************)
MaxSize == 2

MaxRequests == 2

\* A file as open(filepath, 'rb') finds it: its content, or unreadable.
CacheFile(path, readable, content) ==
    [path |-> path, readable |-> readable, content |-> content]

\* Two files of the same content, a third one, and one that cannot be read.
CacheFiles ==
    { CacheFile("a.pdf", TRUE, "drawing A"),
      CacheFile("copy_of_a.pdf", TRUE, "drawing A"),
      CacheFile("b.pdf", TRUE, "drawing B"),
      CacheFile("gone.pdf", FALSE, None) }

Operations == {"process", "ocr"}

\* The result the application computes for a file and caches.
ResultOf(f, operation) == <<"result", operation, f.path>>

\* hashlib.md5(content).hexdigest(), injective on the contents at hand.
md5(content) == <<"md5", content>>

\* ProcessingCache._generate_key(filepath, operation)
_generate_key(f, operation) ==
    IF f.readable THEN <<operation>> \o md5(f.content)
    ELSE <<operation, "path", f.path>>

\* The keys of the OrderedDict.
KeySet(c) == {c.cache[i].key : i \in 1..Len(c.cache)}

\* OrderedDict.move_to_end(key)
move_to_end(entries, key) ==
    SelectSeq(entries, LAMBDA e: e.key # key)
    \o SelectSeq(entries, LAMBDA e: e.key = key)

\* OrderedDict.__setitem__: a present key keeps its place.
SetItem(entries, entry) ==
    IF \E i \in 1..Len(entries) : entries[i].key = entry.key
    THEN [i \in 1..Len(entries) |->
             IF entries[i].key = entry.key THEN entry ELSE entries[i]]
    ELSE Append(entries, entry)

\* What a cache call hands back, with the cache after it.
CacheReturn(c, status, ret) == [cache |-> c, status |-> status, ret |-> ret]

\* A get that leaves the order of the entries alone.
GetWithoutMove(c, f, operation) ==
    LET cache_key == _generate_key(f, operation)
    IN IF cache_key \in KeySet(c)
       THEN CacheReturn([c EXCEPT !.hits = @ + 1], "ok",
                (CHOOSE e \in {c.cache[i] : i \in 1..Len(c.cache)} :
                     e.key = cache_key).result)
       ELSE CacheReturn([c EXCEPT !.misses = @ + 1], "ok", None)

\* ProcessingCache.get(filepath, operation)
cache_get(c, f, operation) ==
    LET cache_key == _generate_key(f, operation)
    IN IF cache_key \in KeySet(c)
       THEN CacheReturn([c EXCEPT !.cache = move_to_end(@, cache_key),
                                  !.hits = @ + 1], "ok",
                (CHOOSE e \in {c.cache[i] : i \in 1..Len(c.cache)} :
                     e.key = cache_key).result)
       ELSE CacheReturn([c EXCEPT !.misses = @ + 1], "ok", None)

\* ProcessingCache.put(filepath, result, operation); next(iter(...)) on an
\* empty OrderedDict raises StopIteration.
cache_put(c, f, result, operation) ==
    LET cache_key == _generate_key(f, operation)
        at_capacity == Len(c.cache) >= c.max_size /\ cache_key \notin KeySet(c)
        kept == IF at_capacity THEN Tail(c.cache) ELSE c.cache
        entry == [key |-> cache_key, result |-> result, filepath |-> f.path,
                  operation |-> operation]
    IN IF at_capacity /\ c.cache = <<>> THEN CacheReturn(c, "raised", None)
       ELSE CacheReturn([c EXCEPT !.cache =
                            move_to_end(SetItem(kept, entry), cache_key)],
                        "ok", None)

\* put, lines 102-105: the entry popped to make room, if any.
removed(c, f, operation) ==
    IF /\ Len(c.cache) >= c.max_size
       /\ _generate_key(f, operation) \notin KeySet(c)
       /\ c.cache # <<>>
    THEN << Head(c.cache) >>
    ELSE <<>>

\* ProcessingCache.invalidate(filepath, operation)
cache_invalidate(c, f, operation) ==
    LET Removed(e) == /\ e.filepath = f.path
                      /\ operation = None \/ e.operation = operation
        count == Cardinality({i \in 1..Len(c.cache) : Removed(c.cache[i])})
    IN CacheReturn([c EXCEPT !.cache = SelectSeq(@, LAMBDA e: ~Removed(e))],
                   "ok", count)

\* ProcessingCache.clear()
cache_clear(c) == [c EXCEPT !.cache = <<>>, !.hits = 0, !.misses = 0]

\* ProcessingCache.resize(new_max_size), new_max_size >= 0.
cache_resize(c, new_max_size) ==
    [c EXCEPT !.max_size = new_max_size,
              !.cache = IF Len(@) > new_max_size
                        THEN SubSeq(@, Len(@) - new_max_size + 1, Len(@))
                        ELSE @]

\* The last call on the cache.
CacheCall(op, filepath, operation, status, ret) ==
    [op |-> op, filepath |-> filepath, operation |-> operation,
     status |-> status, ret |-> ret, removed |-> <<>>]

\* The keys of the cache by their last access (a get hit or a put), the
\* oldest first: key is accessed, and the keys not in present are gone.
Accessed(order, key, present) ==
    SelectSeq(SelectSeq(order, LAMBDA k: k # key) \o <<key>>,
              LAMBDA k: k \in present)

CacheInit ==
    /\ phase = "constructed"
    /\ config = DetectionConfig
    /\ templates = <<>>
    /\ color_ranges = DefaultColorRanges
    /\ input = Page(<<>>)
    /\ call = CacheCall("__init__", None, None, "ok", None)
    /\ prev = NoPrev
    /\ threads = <<>>
    /\ navigator = PageNavigator
    /\ batch = BatchProcessor(batch_max_workers)
    /\ cache \in { ProcessingCache(max_size) : max_size \in 0..MaxSize }
    /\ recency = <<>>

CacheGet(f, operation) ==
    /\ cache.hits + cache.misses < MaxRequests
    /\ cache' = cache_get(cache, f, operation).cache
    /\ call' = CacheCall("get", f.path, operation, "ok",
                         cache_get(cache, f, operation).ret)
    /\ recency' = IF cache_get(cache, f, operation).ret = None THEN recency
                  ELSE Accessed(recency, _generate_key(f, operation),
                                KeySet(cache'))
    /\ UNCHANGED <<phase, config, templates, color_ranges, input, prev,
                   threads, navigator, batch>>

CachePut(f, operation) ==
    /\ cache' = cache_put(cache, f, ResultOf(f, operation), operation).cache
    /\ call' = [CacheCall("put", f.path, operation,
                          cache_put(cache, f, ResultOf(f, operation),
                                    operation).status, None)
                   EXCEPT !.removed = removed(cache, f, operation)]
    /\ recency' = IF cache_put(cache, f, ResultOf(f, operation),
                               operation).status = "raised"
                  THEN recency
                  ELSE Accessed(recency, _generate_key(f, operation),
                                KeySet(cache'))
    /\ UNCHANGED <<phase, config, templates, color_ranges, input, prev,
                   threads, navigator, batch>>

CacheInvalidate(f, operation) ==
    /\ cache' = cache_invalidate(cache, f, operation).cache
    /\ call' = CacheCall("invalidate", f.path, operation, "ok",
                         cache_invalidate(cache, f, operation).ret)
    /\ recency' = SelectSeq(recency, LAMBDA k: k \in KeySet(cache'))
    /\ UNCHANGED <<phase, config, templates, color_ranges, input, prev,
                   threads, navigator, batch>>

CacheClear ==
    /\ cache' = cache_clear(cache)
    /\ call' = CacheCall("clear", None, None, "ok", None)
    /\ recency' = <<>>
    /\ UNCHANGED <<phase, config, templates, color_ranges, input, prev,
                   threads, navigator, batch>>

CacheResize(new_max_size) ==
    /\ cache' = cache_resize(cache, new_max_size)
    /\ call' = CacheCall("resize", None, None, "ok", None)
    /\ recency' = SelectSeq(recency, LAMBDA k: k \in KeySet(cache'))
    /\ UNCHANGED <<phase, config, templates, color_ranges, input, prev,
                   threads, navigator, batch>>

CacheNext ==
    \/ \E f \in CacheFiles, operation \in Operations : CacheGet(f, operation)
    \/ \E f \in CacheFiles, operation \in Operations : CachePut(f, operation)
    \/ \E f \in CacheFiles, operation \in Operations \cup {None} :
          CacheInvalidate(f, operation)
    \/ CacheClear
    \/ \E new_max_size \in 0..MaxSize : CacheResize(new_max_size)

CacheSpec == CacheInit /\ [][CacheNext]_vars

(***************************************************************************)
(* C27.  After any sequence of put, get, invalidate, resize and clear      *)
(* calls, for any max_size >= 0, the cache holds at most max_size entries  *)
(* and no call raises.                                                     *)
(***************************************************************************)
CacheWithinMaxSize ==
    /\ Len(cache.cache) <= cache.max_size
    /\ call.status # "raised"

(***************************************************************************)
(* C28.  The cache evicts in LRU order: when put inserts a new key into a  *)
(* full cache, or resize shrinks it, the entries removed are exactly those *)
(* whose most recent access (get hit or put) is oldest, and every other    *)
(* entry stays as it was; a put on a key already present evicts nothing.   *)
(***************************************************************************)
FileAt(path) == CHOOSE f \in CacheFiles : f.path = path

Entries(c) == {c.cache[i] : i \in 1..Len(c.cache)}

\* The n keys accessed longest ago (all of them when there are fewer).
Oldest(n) == {recency[i] : i \in 1..Min(n, Len(recency))}

Evicted == KeySet(cache) \ KeySet(cache')

\* Every entry but the evicted ones and the one written is kept as it was.
OthersKept(written) ==
    \A e \in Entries(cache) :
        e.key \notin Evicted \cup written => e \in Entries(cache')

PutEvictsOldest ==
    LET key == _generate_key(FileAt(call'.filepath), call'.operation)
    IN /\ Evicted = IF /\ key \notin KeySet(cache)
                       /\ Len(cache.cache) >= cache.max_size
                    THEN Oldest(1)
                    ELSE {}
       /\ OthersKept({key})

ResizeEvictsOldest ==
    /\ Evicted = Oldest(Len(cache.cache) - cache'.max_size)
    /\ OthersKept({})

EvictsLeastRecentlyUsed ==
    [][ /\ call'.op = "put" => PutEvictsOldest
        /\ call'.op = "resize" => ResizeEvictsOldest
        /\ call'.op = "get" => Evicted = {} /\ OthersKept({}) ]_vars

\* A put that evicted an entry which was not the first one put: the first
\* entry was hit by a get in between.
LruWitness ==
    /\ call.op = "put"
    /\ call.removed # <<>>
    /\ cache.hits >= 1
    /\ Len(cache.cache) = 2

(***************************************************************************)
(* C29.  After invalidate(filepath) returns, get(filepath, operation) is a *)
(* miss for every operation until the next put for that filepath, whatever *)
(* other files were put before, files of identical content under another   *)
(* path included.                                                          *)
(***************************************************************************)
InvalidatedIsMiss ==
    (call.op = "invalidate" /\ call.operation = None) =>
        \A operation \in Operations :
            cache_get(cache, FileAt(call.filepath), operation).ret = None

(***************************************************************************)
(* The batch processor with the application's per-file function as         *)
(* processor_func: the workers of the thread pool share the application's  *)
(* page navigator.                                                         *)
(***************************************************************************)
MaxTasks == 2

\* A path at which os.path.exists finds nothing.
Missing(name) ==
    [path |-> name, kind |-> "missing", pages |-> 0, opens |-> FALSE,
     fails_at |-> 0]

\* A file whose extension is not a supported one.
Unsupported(name) ==
    [path |-> name, kind |-> "unsupported", pages |-> 0, opens |-> FALSE,
     fails_at |-> 0]

BatchFiles ==
    { Pdf("plan.pdf", 2, TRUE, 0), ImageFile("scan.png", TRUE),
      Unsupported("notes.txt"), Missing("lost.pdf") }

BatchFileAt(path) == CHOOSE f \in BatchFiles : f.path = path

\* The lists of files handed to add_files.
FileLists ==
    { << BatchFileAt("plan.pdf") >>,
      << BatchFileAt("scan.png"), BatchFileAt("notes.txt") >>,
      << BatchFileAt("lost.pdf") >>,
      << BatchFileAt("plan.pdf"), BatchFileAt("scan.png") >> }

\* BatchProcessor._validate_file(file_path)
_validate_file(f) ==
    IF f.kind = "missing" THEN FALSE
    ELSE f.kind \in {"pdf", "image"}

\* What processor_func returns for None.
NoneResult == [filepath |-> None, page_results |-> <<>>, is_none |-> TRUE]

\* DrawingValidationResult(filepath, page_results, ...)
DrawingValidationResult(filepath, page_results) ==
    [filepath |-> filepath, page_results |-> page_results, is_none |-> FALSE]

\* PageValidationResult(page_number, ...) computed from a page image.
PageValidationResult(page_number, page_image) ==
    [page_number |-> page_number, image |-> page_image]

\* BatchTask(file_path, status=PENDING)
BatchTask(file_path) ==
    [file_path |-> file_path, status |-> "PENDING", result |-> NoneResult]

\* BatchProcessor.add_files(file_paths)
add_files(b, file_paths) ==
    LET valid_files == SelectSeq(file_paths, _validate_file)
    IN [b EXCEPT !.tasks = @ \o [i \in 1..Len(valid_files) |->
                                    BatchTask(valid_files[i].path)],
                 !.total_tasks = Len(valid_files)]

\* BatchProcessor.clear_tasks()
clear_tasks(b) ==
    [b EXCEPT !.tasks = <<>>, !.results = <<>>, !.total_tasks = 0,
              !.current_progress = 0]

\* BatchResult(total_files, processed_files, ...)
BatchResult(total_files, processed_files, successful_files, failed_files, results, cancelled) ==
    [total_files |-> total_files, processed_files |-> processed_files,
     successful_files |-> successful_files, failed_files |-> failed_files,
     results |-> results, cancelled |-> cancelled]

\* A future of the executor.
Future(state, result) == [state |-> state, result |-> result]

\* The last call on the batch processor and, for process_batch, its
\* futures, the futures as_completed has yielded, its counters, and the
\* BatchResult it returned (none yet: <<>>).
NoRun ==
    [op |-> "none", pc |-> "idle", futures |-> <<>>, yielded |-> {},
     successful |-> 0, failed |-> 0, ret |-> <<>>]

\* A worker thread of the pool: its task (0: none) and where it is in
\* _process_file_for_batch.
IdleWorker ==
    [task |-> 0, pc |-> "idle", total |-> 0, page_num |-> 0,
     all_page_results |-> <<>>, success |-> FALSE]

BatchInit ==
    /\ phase = "constructed"
    /\ config = DetectionConfig
    /\ templates = <<>>
    /\ color_ranges = DefaultColorRanges
    /\ input = Page(<<>>)
    /\ call = NoRun
    /\ prev = NoPrev
    /\ navigator = PageNavigator
    /\ batch \in { BatchProcessor(max_workers) : max_workers \in 1..batch_max_workers }
    /\ threads = [w \in 1..batch.max_workers |-> IdleWorker]
    /\ cache = ProcessingCache(cache_size)
    /\ recency = <<>>

\* BatchProcessor.add_files(file_paths), before the batch is processed.
AddFiles(file_paths) ==
    /\ call.pc = "idle"
    /\ Len(batch.tasks) + Len(file_paths) <= MaxTasks
    /\ batch' = add_files(batch, file_paths)
    /\ call' = [call EXCEPT !.op = "add_files"]
    /\ UNCHANGED <<phase, config, templates, color_ranges, input, prev,
                   threads, navigator, cache, recency>>

\* BatchProcessor.clear_tasks(), before the batch is processed.
ClearTasks ==
    /\ call.pc = "idle"
    /\ batch' = clear_tasks(batch)
    /\ call' = [call EXCEPT !.op = "clear_tasks"]
    /\ UNCHANGED <<phase, config, templates, color_ranges, input, prev,
                   threads, navigator, cache, recency>>

\* BatchProcessor.cancel_batch(), while process_batch is running.
CancelBatch ==
    /\ batch.is_processing
    /\ ~batch.cancel_requested
    /\ batch' = [batch EXCEPT !.cancel_requested = TRUE]
    /\ UNCHANGED <<phase, config, templates, color_ranges, input, call, prev,
                   threads, navigator, cache, recency>>

\* process_batch, lines 103-118: reset, then submit every task.
ProcessBatch ==
    /\ call.pc = "idle"
    /\ batch' = [batch EXCEPT !.is_processing = TRUE,
                              !.cancel_requested = FALSE,
                              !.results = <<>>,
                              !.current_progress = 0]
    /\ call' = [NoRun EXCEPT !.op = "process_batch", !.pc = "collecting",
                   !.futures = [i \in 1..Len(batch.tasks) |->
                                   Future("pending", NoneResult)]]
    /\ UNCHANGED <<phase, config, templates, color_ranges, input, prev,
                   threads, navigator, cache, recency>>

\* The submitted futures no worker has taken yet.
Pending == {i \in 1..Len(call.futures) : call.futures[i].state = "pending"}

\* A free worker (the threads being alike, the first one) takes the oldest
\* pending future and enters _process_single_file: task.status = PROCESSING.
StartTask(w) ==
    /\ call.pc = "collecting"
    /\ w \in DOMAIN threads
    /\ threads[w].task = 0
    /\ \A v \in 1..(w - 1) : threads[v].task # 0
    /\ Pending # {}
    /\ LET i == CHOOSE i \in Pending : \A j \in Pending : i <= j
       IN /\ call' = [call EXCEPT !.futures[i].state = "running"]
          /\ batch' = [batch EXCEPT !.tasks[i].status = "PROCESSING"]
          /\ threads' = [threads EXCEPT ![w] =
                            [IdleWorker EXCEPT !.task = i, !.pc = "load"]]
    /\ UNCHANGED <<phase, config, templates, color_ranges, input, prev,
                   navigator, cache, recency>>

\* _process_file_for_batch, lines 472-478: load the file into the navigator.
LoadFile(w) ==
    /\ w \in DOMAIN threads
    /\ threads[w].pc = "load"
    /\ LET f == BatchFileAt(batch.tasks[threads[w].task].file_path)
           r == IF f.kind = "pdf" THEN load_multi_page_pdf(navigator, f)
                ELSE load_single_image(navigator, f)
       IN /\ navigator' = r.nav
          /\ threads' = [threads EXCEPT ![w].success = r.ret,
                            ![w].pc = IF r.ret THEN "range" ELSE "return"]
    /\ UNCHANGED <<phase, config, templates, color_ranges, input, call, prev,
                   batch, cache, recency>>

\* line 482: range(self.page_navigator.total_pages)
ReadTotalPages(w) ==
    /\ w \in DOMAIN threads
    /\ threads[w].pc = "range"
    /\ threads' = [threads EXCEPT ![w].total = navigator.total_pages,
                      ![w].page_num = 0,
                      ![w].pc = IF navigator.total_pages > 0 THEN "navigate"
                                ELSE "return"]
    /\ UNCHANGED <<phase, config, templates, color_ranges, input, call, prev,
                   navigator, batch, cache, recency>>

\* line 483: self.page_navigator.navigate_to_page(page_num)
NavigateWorker(w) ==
    /\ w \in DOMAIN threads
    /\ threads[w].pc = "navigate"
    /\ navigator' = navigate_to_page(navigator, threads[w].page_num).nav
    /\ threads' = [threads EXCEPT ![w].pc = "page"]
    /\ UNCHANGED <<phase, config, templates, color_ranges, input, call, prev,
                   batch, cache, recency>>

\* lines 484-515: take the current page image and compute its page result.
ProcessPage(w) ==
    /\ w \in DOMAIN threads
    /\ threads[w].pc = "page"
    /\ LET t == threads[w]
           has_image == /\ 0 <= navigator.current_page
                        /\ navigator.current_page < Len(navigator.page_images)
       IN threads' = [threads EXCEPT
              ![w].all_page_results =
                  IF has_image
                  THEN Append(@, PageValidationResult(t.page_num,
                                     get_current_page_image(navigator)))
                  ELSE @,
              ![w].page_num = t.page_num + 1,
              ![w].pc = IF t.page_num + 1 < t.total THEN "navigate"
                        ELSE "return"]
    /\ UNCHANGED <<phase, config, templates, color_ranges, input, call, prev,
                   navigator, batch, cache, recency>>

\* lines 517-525 and _process_single_file, lines 194-197: the result is
\* returned, task.status = COMPLETE, the future is done.
ReturnResult(w) ==
    /\ w \in DOMAIN threads
    /\ threads[w].pc = "return"
    /\ LET i == threads[w].task
           result == IF threads[w].success
                     THEN DrawingValidationResult(batch.tasks[i].file_path,
                                                  threads[w].all_page_results)
                     ELSE NoneResult
       IN /\ call' = [call EXCEPT !.futures[i] = Future("finished", result)]
          /\ batch' = [batch EXCEPT !.tasks[i].status = "COMPLETE"]
    /\ threads' = [threads EXCEPT ![w] = IdleWorker]
    /\ UNCHANGED <<phase, config, templates, color_ranges, input, prev,
                   navigator, cache, recency>>

\* process_batch, lines 121-147: as_completed yields a finished future.
Collect(i) ==
    /\ call.pc = "collecting"
    /\ i \in 1..Len(call.futures)
    /\ i \notin call.yielded
    /\ call.futures[i].state = "finished"
    /\ IF batch.cancel_requested
       THEN /\ batch' = [batch EXCEPT !.tasks[i].status = "CANCELLED"]
            /\ call' = [call EXCEPT !.yielded = @ \cup {i}]
       ELSE LET result == call.futures[i].result
            IN /\ batch' = [batch EXCEPT !.tasks[i].result = result,
                                         !.results = Append(@, result),
                                         !.current_progress = @ + 1]
               /\ call' = [call EXCEPT
                      !.yielded = @ \cup {i},
                      !.successful = IF result.is_none THEN @ ELSE @ + 1,
                      !.failed = IF result.is_none THEN @ + 1 ELSE @]
    /\ UNCHANGED <<phase, config, templates, color_ranges, input, prev,
                   threads, navigator, cache, recency>>

\* process_batch, lines 159-174: every future was yielded; the BatchResult.
ReturnBatch ==
    /\ call.pc = "collecting"
    /\ call.yielded = 1..Len(call.futures)
    /\ call' = [call EXCEPT !.pc = "returned",
                   !.ret = << BatchResult(batch.total_tasks,
                                          batch.current_progress,
                                          call.successful, call.failed,
                                          batch.results,
                                          batch.cancel_requested) >>]
    /\ batch' = [batch EXCEPT !.is_processing = FALSE]
    /\ UNCHANGED <<phase, config, templates, color_ranges, input, prev,
                   threads, navigator, cache, recency>>

BatchNext ==
    \/ \E file_paths \in FileLists : AddFiles(file_paths)
    \/ ClearTasks
    \/ CancelBatch
    \/ ProcessBatch
    \/ \E w \in 1..batch_max_workers : StartTask(w)
    \/ \E w \in 1..batch_max_workers : LoadFile(w)
    \/ \E w \in 1..batch_max_workers : ReadTotalPages(w)
    \/ \E w \in 1..batch_max_workers : NavigateWorker(w)
    \/ \E w \in 1..batch_max_workers : ProcessPage(w)
    \/ \E w \in 1..batch_max_workers : ReturnResult(w)
    \/ \E i \in 1..MaxTasks : Collect(i)
    \/ ReturnBatch

BatchSpec == BatchInit /\ [][BatchNext]_vars

(***************************************************************************)
(* C24.  With more than one worker, the result recorded for each file is   *)
(* computed only from that file's own pages: under every interleaving no   *)
(* worker reads pages, page count or current page that another worker      *)
(* loaded into the shared navigator.                                       *)
(***************************************************************************)
\* The page results of a file processed on its own.
OwnPages(f) ==
    [k \in 1..f.pages |-> PageValidationResult(k - 1, PageImage(f, k - 1))]

ResultsFromOwnPages ==
    \A i \in 1..Len(call.futures) :
        LET future == call.futures[i]
            filepath == batch.tasks[i].file_path
        IN future.state = "finished" =>
               future.result =
                   DrawingValidationResult(filepath,
                                           OwnPages(BatchFileAt(filepath)))

(***************************************************************************)
(* C25.  Once cancel_batch() has been called while process_batch is        *)
(* running, no task whose processing had not yet started is started        *)
(* afterwards: it ends CANCELLED without its processor function having     *)
(* been invoked, and process_batch returns with cancelled = True.          *)
(***************************************************************************)
NotStarted(run) == {i \in 1..Len(run.futures) : run.futures[i].state = "pending"}

NoStartAfterCancel ==
    [][ (batch.is_processing /\ batch.cancel_requested) =>
            /\ NotStarted(call) \subseteq NotStarted(call')
            /\ call'.pc = "returned" =>
                  /\ call'.ret[1].cancelled
                  /\ \A i \in NotStarted(call) :
                        batch'.tasks[i].status = "CANCELLED" ]_vars

(***************************************************************************)
(* C26.  After any sequence of add_files and clear_tasks calls,            *)
(* total_tasks equals len(tasks); hence every BatchResult returned by      *)
(* process_batch has total_files equal to the number of tasks submitted    *)
(* and processed_files <= total_files.                                     *)
(***************************************************************************)
TotalTasksIsTaskCount ==
    /\ batch.total_tasks = Len(batch.tasks)
    /\ call.pc = "returned" =>
          /\ call.ret[1].total_files = Len(call.futures)
          /\ call.ret[1].processed_files <= call.ret[1].total_files

====
